---- MODULE Spec2Model ----
(***************************************************************************)
(* A model of sgrequests_cache: the circuit breaker (circuit_breaker.py),  *)
(* the request deduplicator (deduplication.py) and the cached client       *)
(* facade (cache.py) over a byte-blob backend (backends/).                 *)
(*                                                                         *)
(* The specifications share the module's variables:                        *)
(*   SpecCB        concurrent callers of CircuitBreaker.call / reset       *)
(*   SpecDedup     concurrent callers of RequestDeduplicator.get_or_fetch  *)
(*   SpecDedupLive SpecDedup with the scheduling of its threads            *)
(*   Spec          concurrent callers of CachedSgRequests.request          *)
(*   SpecWarm      request over a backend that holds an entry              *)
(*   SpecBuilder   request with a key_builder configured                   *)
(*   SpecKey       two calls of _build_key                                 *)
(*   SpecMatch     a call of URLMatcher.should_cache                       *)
(*   SpecTiered    a caller of a TieredCacheBackend and its listener       *)
(*   SpecPeers     two TieredCacheBackends over one L2                     *)
(*   SpecConfig    a construction of CacheConfig                           *)
(*   SpecStats     threads calling the operations of a CacheStats          *)
(*   SpecStatsLive SpecStats with the scheduling of its threads            *)
(* A specification leaves the variables of the parts it does not drive at  *)
(* their initial values.                                                   *)
(***************************************************************************)
EXTENDS Integers, Naturals, Sequences, FiniteSets, TLC

(***************************************************************************)
(* Bounds of the model.                                                    *)
(***************************************************************************)
\* the clock runs from 1 to MaxTime
MaxTime == 4
\* concurrent callers of CircuitBreaker.call in SpecCB
NCallers == 2
\* concurrent callers of RequestDeduplicator.get_or_fetch in SpecDedup and of
\* CachedSgRequests.request in Spec
NClients == 2
\* get_or_fetch calls made in a behaviour of SpecDedup or Spec
MaxCalls == 3
\* request() calls made in a behaviour of Spec
MaxRequests == 2
\* background refresh threads alive at a time in Spec
MaxRefresh == 1

\* values of the (constructor) configuration explored
Thresholds == {1, 2}
Timeouts == {0, 1}

None == "None"

VARIABLES
    \* the wall clock, time.time()
    now,
    \* ---- CircuitBreaker fields (circuit_breaker.py:45-50)
    threshold, timeout, failures, last_failure_time, state,
    \* ---- callers of CircuitBreaker.call in SpecCB
    cpc,        \* caller -> position in call()
    cadmit,     \* caller -> how the running call was admitted
    nfailed,    \* operations failed since the breaker was last CLOSED with count 0
    \* ---- RequestDeduplicator fields (deduplication.py:25-28)
    in_flight,  \* key -> the Event of the fetch in flight, or NotInFlight
    results,    \* key -> recorded result, or Absent
    errors,     \* key -> recorded error, PyNone, or Absent
    dlock,      \* the holder of _lock, or 0
    events,     \* the Events that have been set
    timers,     \* key -> number of cleanup Timers started and not yet run
    \* ---- callers of RequestDeduplicator.get_or_fetch
    ncalls,     \* get_or_fetch calls begun so far; a call's number names its Event and its fetch
    dpc,        \* client -> position in get_or_fetch()
    dkey,       \* client -> key
    dcall,      \* client -> number of its current call
    devent,     \* client -> the Event it holds (the number of the call that created it)
    dout,       \* client -> what its fetch_fn produced / what the call returns or raises
    fout,       \* call number -> outcome of the fetch run by the call that registered as fetcher
    \* ---- CachedSgRequests (cache.py:180-205), its backend and the wrapped client
    cfg,        \* the CacheConfig
    store,      \* the backend: key -> blob, or NoBlob
    calls,      \* calls of the wrapped client so far (DummyHttp.calls)
    stats,      \* the CacheStats counters
    \* ---- threads in request() and in _background_refresh()
    nreq,       \* request() calls begun so far
    fpc,        \* worker -> position
    freq,       \* worker -> the arguments of its request, and the entry the backend held when it began
    fblob,      \* worker -> the blob _get_from_cache returned (line 284)
    fwrite,     \* worker -> the blob serialized for _set_to_cache (line 371)
    fresp,      \* worker -> the response in hand / what request() returns or raises
    fstale,     \* worker -> the upstream error while _fetch_response looks for a stale entry
    flabel,     \* worker -> the latency label observed: "hit", "hit_stale", "miss"
    fnup,       \* worker -> calls of the wrapped client made by its request
    fwaited,    \* worker -> its get_or_fetch joined a fetch in flight
    overlapped, \* at some time every client had a request in progress
    \* ---- a URLMatcher (patterns.py:30-34) and a call of should_cache
    include_patterns, exclude_patterns,
    murl,       \* the argument of should_cache
    mret,       \* <<what should_cache returned>>, or <<>> before it returns
    \* ---- two calls of _build_key (cache.py:125-156)
    kargs,      \* the arguments of the two calls
    kret,       \* the keys returned, or <<>> before the calls
    \* ---- a TieredCacheBackend (backends/tiered.py) and its caller
    l1,         \* the fast tier: key -> entry, or NoEntry
    l2,         \* the persistent tier: key -> entry, or NoEntry
    l2kind,     \* the class of the persistent tier: "memory" or "remote"
    channel,    \* the invalidation messages published and not yet handled by the listener
    tpc,        \* the caller's position in get / set / delete
    targs,      \* the arguments of the caller's operation
    tret,       \* the value in hand / what get returns
    tops,       \* operations begun so far
    npeer,      \* invalidations published by other instances so far
    \* ---- a construction of CacheConfig (cache.py:95-122)
    cargs,      \* the options given
    cret,       \* <<the outcome>>, or <<>> before the construction
    \* ---- a second TieredCacheBackend over the same L2 (another process)
    peered,     \* TRUE when the second instance exists and listens on the channel
    pl1,        \* its fast tier: key -> entry, or NoEntry
    pchannel,   \* the invalidation messages its listener has not yet handled
    ppc,        \* its caller's position in get
    pkey,       \* the key of its caller's get
    pret,       \* the value in hand
    pops,       \* calls of get begun so far
    \* ---- the mutex of a CacheStats (stats.py:20) and the threads using it
    slock,      \* the holder of _lock, or 0
    spc,        \* thread -> position in its operation
    sop,        \* thread -> the operation it runs
    nstat       \* operations begun so far

cbvars == <<threshold, timeout, failures, last_failure_time, state>>
cbdriver == <<cpc, cadmit, nfailed>>
ddvars == <<in_flight, results, errors, dlock, events, timers>>
dddriver == <<ncalls, dpc, dkey, dcall, devent, dout, fout>>
facvars == <<cfg, store, calls, stats>>
facdriver == <<nreq, fpc, freq, fblob, fwrite, fresp, fstale, flabel, fnup, fwaited, overlapped>>
matchvars == <<include_patterns, exclude_patterns, murl, mret>>
keyvars == <<kargs, kret>>
tiervars == <<l1, l2, l2kind, channel, tpc, targs, tret, tops, npeer>>
confvars == <<cargs, cret>>
peervars == <<peered, pl1, pchannel, ppc, pkey, pret, pops>>
statvars == <<slock, spc, sop, nstat>>
fnvars == <<matchvars, keyvars, tiervars, confvars, peervars, statvars>>
vars == <<now, cbvars, cbdriver, ddvars, dddriver, facvars, facdriver, fnvars>>
\* what the actions of SpecCB and of SpecDedup leave alone
notcb == <<ddvars, dddriver, facvars, facdriver, fnvars>>
notdd == <<now, cbvars, cbdriver, facvars, facdriver, fnvars>>

(***************************************************************************)
(* CircuitBreaker                                                          *)
(***************************************************************************)
CLOSED == "closed"
OPEN == "open"
HALF_OPEN == "half_open"

Callers == 1..NCallers

\* CircuitBreaker.__init__
CircuitBreakerInit ==
    /\ threshold \in Thresholds
    /\ timeout \in Timeouts
    /\ failures = 0
    /\ last_failure_time = 0
    /\ state = CLOSED

\* mutant: the timeout counts as elapsed one tick early
TimeoutElapsedInclusive == now - last_failure_time >= timeout

\* call(), the test of line 69: the recovery timeout has elapsed
TimeoutElapsed == now - last_failure_time > timeout

\* call(), lines 66-76: TRUE when the call is rejected with CircuitBreakerOpenError
CallRejected == state = OPEN /\ ~TimeoutElapsed

\* call(), lines 66-76, the critical section entered when the call begins
CallBegin ==
    /\ state' = IF state = OPEN /\ TimeoutElapsed THEN HALF_OPEN ELSE state
    /\ UNCHANGED <<threshold, timeout, failures, last_failure_time>>

\* mutant: a success closes the circuit whatever its state
CallSuccessClosesOpen ==
    /\ state' = CLOSED
    /\ failures' = IF state = HALF_OPEN THEN 0 ELSE failures
    /\ UNCHANGED <<threshold, timeout, last_failure_time>>

\* mutant: every success zeroes the failure count
CallSuccessZeroes ==
    /\ state' = IF state = HALF_OPEN THEN CLOSED ELSE state
    /\ failures' = 0
    /\ UNCHANGED <<threshold, timeout, last_failure_time>>

\* mutant: a success in HALF_OPEN closes the circuit and keeps the count
CallSuccessKeepsCount ==
    /\ state' = IF state = HALF_OPEN THEN CLOSED ELSE state
    /\ UNCHANGED <<threshold, timeout, failures, last_failure_time>>

\* call(), lines 82-89: the operation returned
CallSuccess ==
    /\ state' = IF state = HALF_OPEN THEN CLOSED ELSE state
    /\ failures' = IF state = HALF_OPEN THEN 0 ELSE failures
    /\ UNCHANGED <<threshold, timeout, last_failure_time>>

\* mutant: the circuit opens one failure late
ThresholdExceeded(n) == n > threshold

\* call(), line 98: the test that opens the circuit
ThresholdReached(n) == n >= threshold

\* mutant: a failure leaves last_failure_time as it was
CallFailureKeepsTime ==
    /\ failures' = failures + 1
    /\ state' = IF ThresholdReached(failures + 1) THEN OPEN ELSE state
    /\ UNCHANGED <<threshold, timeout, last_failure_time>>

\* call(), lines 91-105: the operation raised
CallFailure ==
    /\ failures' = failures + 1
    /\ last_failure_time' = now
    /\ state' = IF ThresholdReached(failures + 1) THEN OPEN ELSE state
    /\ UNCHANGED <<threshold, timeout>>

\* reset(), lines 107-112
ResetBreaker ==
    /\ state' = CLOSED
    /\ failures' = 0
    /\ UNCHANGED <<threshold, timeout, last_failure_time>>

(***************************************************************************)
(* RequestDeduplicator                                                     *)
(*                                                                         *)
(* Values held by the tables and by callers are records [kind, id]:        *)
(* "result" and "error" carry the number of the call whose fetch_fn        *)
(* produced them, PyNone is Python's None and Absent a missing dict key.   *)
(***************************************************************************)
\* the keys used by the callers
Keys == {1, 2}
Clients == 1..NClients
CallIds == 1..MaxCalls

\* the key is not in _in_flight (Events are numbered from 1)
NotInFlight == 0

Absent == [kind |-> "absent", id |-> 0]
PyNone == [kind |-> "none", id |-> 0]
Result(n) == [kind |-> "result", id |-> n]
Error(n) == [kind |-> "error", id |-> n]

\* RequestDeduplicator.__init__, lines 25-28
DeduplicatorInit ==
    /\ in_flight = [k \in Keys |-> NotInFlight]
    /\ results = [k \in Keys |-> Absent]
    /\ errors = [k \in Keys |-> Absent]
    /\ dlock = 0
    /\ events = {}
    /\ timers = [k \in Keys |-> 0]

\* mutant: every caller registers as the fetcher
ShouldFetchAlways(k) == TRUE

\* get_or_fetch, line 50: no fetch is in flight for the key
ShouldFetch(k) == in_flight[k] = NotInFlight

\* get_or_fetch, lines 49-57, for the call whose new Event would be ev
Register(k, ev) ==
    /\ dlock = 0
    /\ in_flight' = IF ShouldFetch(k) THEN [in_flight EXCEPT ![k] = ev] ELSE in_flight
    /\ UNCHANGED <<results, errors, dlock, events, timers>>

\* get_or_fetch, lines 63-67: the fetcher records its result
RecordResult(k, r) ==
    /\ dlock = 0
    /\ results' = [results EXCEPT ![k] = r]
    /\ errors' = [errors EXCEPT ![k] = PyNone]
    /\ in_flight' = [in_flight EXCEPT ![k] = NotInFlight]
    /\ UNCHANGED <<dlock, events, timers>>

\* get_or_fetch, lines 69-72: the fetcher records its error
RecordError(k, e) ==
    /\ dlock = 0
    /\ errors' = [errors EXCEPT ![k] = e]
    /\ in_flight' = [in_flight EXCEPT ![k] = NotInFlight]
    /\ UNCHANGED <<results, dlock, events, timers>>

\* get_or_fetch, lines 74-78: the fetcher sets its Event and starts the cleanup Timer
SignalAndSchedule(k, ev) ==
    /\ events' = events \cup {ev}
    /\ timers' = [timers EXCEPT ![k] = @ + 1]
    /\ UNCHANGED <<in_flight, results, errors, dlock>>

\* get_or_fetch, lines 83-93: what a waiter that has woken does under the lock:
\* raise the recorded error, return the recorded result, or fetch itself
WaiterReads(k) ==
    IF errors[k] # Absent /\ errors[k] # PyNone THEN errors[k]
    ELSE IF results[k] # Absent THEN results[k]
    ELSE [kind |-> "fetch", id |-> 0]

\* mutant: the cleanup leaves the recorded error
CleanupKeepsErrors(k) ==
    /\ dlock = 0
    /\ results' = [results EXCEPT ![k] = Absent]
    /\ UNCHANGED <<in_flight, errors, dlock, events>>

\* _cleanup, lines 95-100
Cleanup(k) ==
    /\ dlock = 0
    /\ results' = [results EXCEPT ![k] = Absent]
    /\ errors' = [errors EXCEPT ![k] = Absent]
    /\ UNCHANGED <<in_flight, dlock, events>>

(***************************************************************************)
(* CachedSgRequests: configuration, responses, blobs and the backend       *)
(***************************************************************************)
\* the threads calling request() are the Clients; the background refresh
\* threads are started by stale hits (cache.py:329-332)
Refreshers == (NClients + 1)..(NClients + MaxRefresh)
Workers == Clients \cup Refreshers

\* CacheConfig (cache.py:64-93), with the times at the scale of the model's
\* clock; cacheable_status_codes defaults to set(range(200, 300)) (line 98).
\* backend tells the backend's kind: "reliable" never fails (MemoryCacheBackend),
\* "swallowing" logs a failed operation and returns None (RedisCacheBackend),
\* "raising" lets the exception of a failed operation out.
BaseConfig ==
    [ttl_seconds |-> 1,
     stale_while_revalidate_seconds |-> 0,
     serve_stale_on_error |-> FALSE,
     max_stale_age_seconds |-> 2,
     enable_request_deduplication |-> TRUE,
     enable_circuit_breaker |-> TRUE,
     circuit_breaker_threshold |-> 1,
     circuit_breaker_timeout |-> 1,
     cacheable_status_codes |-> 200..299,
     max_bytes |-> 1,
     namespace |-> "default",
     cache_version |-> "v1",
     vary_user_agent |-> FALSE,
     vary_cookies |-> FALSE,
     cache_patterns |-> <<>>,
     exclude_patterns |-> <<>>,
     key_builder |-> None,
     backend |-> "raising"]

\* the configurations explored
Configs ==
    {BaseConfig,
     [BaseConfig EXCEPT !.backend = "swallowing",
                        !.enable_circuit_breaker = FALSE],
     [BaseConfig EXCEPT !.backend = "reliable",
                        !.enable_request_deduplication = FALSE,
                        !.stale_while_revalidate_seconds = 1,
                        !.serve_stale_on_error = TRUE],
     [BaseConfig EXCEPT !.backend = "reliable",
                        !.enable_request_deduplication = FALSE,
                        !.enable_circuit_breaker = FALSE,
                        !.cacheable_status_codes = {200, 404}]}

\* a Content-Type header value, as its tokens; <<>> is an absent header
Text == <<"text", "/", "html">>
Json == <<"application", "/", "json">>
Png == <<"image", "/", "png">>

\* str.startswith
StartsWith(s, p) == Len(p) <= Len(s) /\ SubSeq(s, 1, Len(p)) = p

\* what the wrapped client may answer: status, content type, body size
UpstreamAnswers ==
    {[status |-> 200, ctype |-> Text, size |-> 1],
     [status |-> 200, ctype |-> Png, size |-> 2],
     [status |-> 204, ctype |-> Json, size |-> 0],
     [status |-> 404, ctype |-> Text, size |-> 1],
     [status |-> 500, ctype |-> <<>>, size |-> 1]}

\* the response of the n-th call of the wrapped client (its body is "ok-n")
Response(n, a) ==
    [kind |-> "result", id |-> n, status |-> a.status, ctype |-> a.ctype, size |-> a.size]

\* the exception a failing backend operation raises
BackendError == [kind |-> "error", id |-> 0]

\* mutant: the status test that forgets 204
StatusCacheableWith204(s) == s \in cfg.cacheable_status_codes

\* _is_cacheable, lines 160-165: the tests on the status code
StatusCacheable(s) == s \in cfg.cacheable_status_codes /\ s # 204

\* _is_cacheable, lines 157-176
IsCacheable(r) ==
    /\ StatusCacheable(r.status)
    /\ r.ctype # <<>> =>
          \/ StartsWith(r.ctype, <<"text", "/">>)
          \/ StartsWith(r.ctype, <<"application", "/", "json">>)
          \/ StartsWith(r.ctype, <<"application", "/", "xhtml">>)
    /\ ~(r.size > cfg.max_bytes)

\* no blob: backend.get returned None
NoBlob == [kind |-> "absent", id |-> 0]

\* serialize_response (serializers.py:74-104): the payload carries the status,
\* the headers, the body and cached_at = time.time()
Serialize(r) ==
    [kind |-> "blob", id |-> r.id, status |-> r.status, ctype |-> r.ctype,
     size |-> r.size, cached_at |-> now]

\* bytes that are not a serialized response: deserialize_response raises on them
CorruptBlob == [kind |-> "corrupt", id |-> 0]

\* deserialize_response returns
Readable(b) == b.kind = "blob"

\* deserialize_response (serializers.py:107-136): the response rebuilt from the blob
Deserialize(b) ==
    [kind |-> "result", id |-> b.id, status |-> b.status, ctype |-> b.ctype, size |-> b.size]

\* mutant: an entry is fresh only while strictly younger than the TTL
FreshStrict(b) == now - b.cached_at < cfg.ttl_seconds

\* request, lines 288-292: the entry is fresh
Fresh(b) == now - b.cached_at <= cfg.ttl_seconds

\* mutant: the stale-while-revalidate window ends one tick early
StaleRevalidatableStrict(b) ==
    /\ cfg.stale_while_revalidate_seconds > 0
    /\ now - b.cached_at < cfg.ttl_seconds + cfg.stale_while_revalidate_seconds

\* request, line 311: the entry is stale but within the stale-while-revalidate window
StaleRevalidatable(b) ==
    /\ cfg.stale_while_revalidate_seconds > 0
    /\ now - b.cached_at <= cfg.ttl_seconds + cfg.stale_while_revalidate_seconds

\* an entry of age max_stale_age_seconds is refused
StaleUsableStrict(b) == now - b.cached_at < cfg.max_stale_age_seconds

\* _fetch_response, line 432: the entry may be served because the upstream failed
StaleUsable(b) == now - b.cached_at <= cfg.max_stale_age_seconds

\* the keys requested, and the arguments cache_read, cache_write and
\* force_refresh of request() (cache.py:252)
RequestKeys == {1}
RequestFlags ==
    {[cache_read |-> TRUE, cache_write |-> TRUE, force_refresh |-> FALSE],
     [cache_read |-> TRUE, cache_write |-> TRUE, force_refresh |-> TRUE],
     [cache_read |-> FALSE, cache_write |-> TRUE, force_refresh |-> FALSE]}

\* no request in progress
NoRequest == [key |-> 0, built |-> 0, cache_read |-> FALSE, cache_write |-> FALSE,
              force_refresh |-> FALSE, refresh |-> FALSE, entry |-> NoBlob]

\* CacheStats() (stats.py:12-18)
NoStats == [hits |-> 0, misses |-> 0, errors |-> 0, writes |-> 0, total_requests |-> 0]

\* CachedSgRequests.__init__ (cache.py:180-205) over an empty backend; the
\* breaker is built from the configuration (lines 202-205)
FacadeInit ==
    /\ cfg \in Configs
    /\ store = [k \in Keys |-> NoBlob]
    /\ calls = 0
    /\ nreq = 0
    /\ stats = NoStats
    /\ fpc = [w \in Workers |-> "idle"]
    /\ freq = [w \in Workers |-> NoRequest]
    /\ fblob = [w \in Workers |-> NoBlob]
    /\ fwrite = [w \in Workers |-> NoBlob]
    /\ fresp = [w \in Workers |-> Absent]
    /\ fstale = [w \in Workers |-> Absent]
    /\ flabel = [w \in Workers |-> ""]
    /\ fnup = [w \in Workers |-> 0]
    /\ fwaited = [w \in Workers |-> FALSE]
    /\ overlapped = FALSE

\* the facade is not in use: SpecCB and SpecDedup
FacadeUnused ==
    /\ FacadeInit
    /\ cfg = BaseConfig

(***************************************************************************)
(* The cache key: _hash_bytes, _sorted_query and _build_key                *)
(* (cache.py:28-38, 125-156).  A string is the sequence of its tokens.     *)
(***************************************************************************)
\* a query string has at most MaxQuery parameters
MaxQuery == 2

\* the characters of parameter names and values, in the order of their code points
Alphabet == <<"1", "2", "a", "b">>
Ord(ch) == CHOOSE i \in 1..Len(Alphabet) : Alphabet[i] = ch

ParamNames == {"a", "b"}
ParamValues == {"1", "2"}
\* QueryParams.multi_items(): the (name, value) pairs in their order in the URL
QueryItems == ParamNames \X ParamValues
Queries == UNION {[1..n -> QueryItems] : n \in 0..MaxQuery}

\* the order of Python tuples of strings: by name, then by value
ItemBefore(x, y) ==
    \/ Ord(x[1]) < Ord(y[1])
    \/ x[1] = y[1] /\ Ord(x[2]) < Ord(y[2])

\* sorted(items)
RECURSIVE SortedInsert(_, _)
SortedInsert(x, s) ==
    IF s = <<>> THEN <<x>>
    ELSE IF ItemBefore(x, s[1]) THEN <<x>> \o s
    ELSE <<s[1]>> \o SortedInsert(x, Tail(s))

RECURSIVE Sorted(_)
Sorted(s) == IF s = <<>> THEN <<>> ELSE SortedInsert(s[1], Sorted(Tail(s)))

\* json.dumps(items, separators=(",", ":")) of a list of pairs of strings
RECURSIVE JsonItems(_)
JsonItems(s) ==
    IF s = <<>> THEN <<>>
    ELSE <<"[", s[1][1], ",", s[1][2], "]">>
             \o (IF Len(s) > 1 THEN <<",">> ELSE <<>>)
             \o JsonItems(Tail(s))

JsonDumps(s) == <<"[">> \o JsonItems(s) \o <<"]">>

\* mutant: the parameters are kept in the order of the URL
SortedQueryAsGiven(url) ==
    IF url.query = <<>> THEN <<>> ELSE JsonDumps(url.query)

\* _sorted_query (cache.py:34-38)
SortedQuery(url) ==
    IF url.query = <<>> THEN <<>> ELSE JsonDumps(Sorted(url.query))

\* mutant: the body is left out of the key
HashBytesEmpty(data) == <<>>

\* _hash_bytes (cache.py:28-31): the SHA-256 digest of the bytes, taken as
\* free of collisions; no digest for no bytes
HashBytes(data) == IF data = <<>> THEN <<>> ELSE <<"sha256">> \o data

\* no headers, or neither header present
NoHeaders == [user_agent |-> <<>>, cookie |-> <<>>]

\* _build_key (cache.py:125-156): the parts joined by "|"
BuildKey(method, url, content, headers, c) ==
    LET normalized == <<url.scheme, "://", url.host>> \o url.path
        q == SortedQuery(url)
        body_hash == IF method \in {"POST", "PUT", "PATCH"} /\ content # <<>>
                     THEN HashBytes(content) ELSE <<>>
        ua == IF c.vary_user_agent THEN headers.user_agent ELSE <<>>
        ck == IF c.vary_cookies THEN headers.cookie ELSE <<>>
    IN  <<"ver:", c.cache_version>>
            \o <<"|", "ns:", c.namespace>>
            \o <<"|", "m:", method>>
            \o <<"|", "u:">> \o normalized
            \o <<"|", "q:">> \o q
            \o <<"|", "b:">> \o body_hash
            \o <<"|", "ua:">> \o ua
            \o <<"|", "ck:">> \o ck

\* httpx.URL(url): the parts of the URLs in use
Url(path, query) ==
    [scheme |-> "https", host |-> "example.com", path |-> path, query |-> query,
     fragment |-> <<>>]

\* the arguments of a call of _build_key
KeyCalls ==
    [method : {"GET", "POST", "PUT"},
     url : {Url(<<"/", "a">>, q) : q \in Queries},
     content : {<<>>, <<"x">>, <<"y">>},
     headers : {NoHeaders},
     cache_version : {"v1", "v2"}]

\* the configuration of the client that makes the call
KeyConfig(call) == [cfg EXCEPT !.cache_version = call.cache_version]

\* no call of _build_key is being followed
KeyInit ==
    /\ kargs = None
    /\ kret = <<>>

(***************************************************************************)
(* The URL policy: URLMatcher (patterns.py).  A URL and a pattern are the  *)
(* sequences of their characters; the patterns explored are made of        *)
(* literal characters, "*" and "?".                                        *)
(***************************************************************************)
\* a URL has at most MaxUrl characters
MaxUrl == 3
\* a pattern list has at most MaxPatterns patterns
MaxPatterns == 2

UrlChars == {"a", "b"}
MatcherUrls == UNION {[1..n -> UrlChars] : n \in 0..MaxUrl}
GlobPatterns == {<<"a", "*">>, <<"*", "b">>, <<"?", "a">>, <<"a", "b">>}
PatternLists == UNION {[1..n -> GlobPatterns] : n \in 0..MaxPatterns}

\* re.compile(fnmatch.translate(pattern)).match(url) (patterns.py:63-75): the
\* whole URL matches the pattern, "*" standing for any string and "?" for any
\* one character
RECURSIVE GlobMatch(_, _)
GlobMatch(pattern, url) ==
    IF pattern = <<>> THEN url = <<>>
    ELSE IF pattern[1] = "*"
         THEN \E i \in 0..Len(url) : GlobMatch(Tail(pattern), SubSeq(url, i + 1, Len(url)))
    ELSE IF url = <<>> THEN FALSE
    ELSE /\ pattern[1] = "?" \/ pattern[1] = url[1]
         /\ GlobMatch(Tail(pattern), Tail(url))

\* any(pattern.match(url) for pattern in regexes)
AnyMatch(patterns, url) == \E i \in DOMAIN patterns : GlobMatch(patterns[i], url)

\* mutant: a matching include pattern is honoured before the exclude patterns
ShouldCacheIncludeFirst(url) ==
    IF include_patterns # <<>> /\ AnyMatch(include_patterns, url) THEN TRUE
    ELSE IF AnyMatch(exclude_patterns, url) THEN FALSE
    ELSE include_patterns = <<>>

\* URLMatcher.should_cache (patterns.py:36-61)
ShouldCache(url) ==
    IF AnyMatch(exclude_patterns, url) THEN FALSE
    ELSE IF include_patterns = <<>> THEN TRUE
    ELSE AnyMatch(include_patterns, url)

\* no URLMatcher is being followed
NoMatcher ==
    /\ include_patterns = <<>>
    /\ exclude_patterns = <<>>
    /\ murl = None
    /\ mret = <<>>


(***************************************************************************)
(* The tiered backend: TieredCacheBackend (backends/tiered.py) over a      *)
(* MemoryCacheBackend (backends/memory.py) as L1 and a MemoryCacheBackend  *)
(* or a RedisCacheBackend (backends/redis.py) as L2.  Times are seconds.   *)
(***************************************************************************)
\* the caller makes at most MaxTierOps operations
MaxTierOps == 3
\* other instances publish at most MaxPeerMsgs invalidations
MaxPeerMsgs == 1

TierKeys == {"k1", "k2"}
TierValues == {"v1", "v2"}
\* the ttl_seconds given to set
TierTtls == {2}

\* a stored value and its expiry: memory.py:36-37, the EX option of redis.py:49
Entry(v, expires_at) == [value |-> v, expires_at |-> expires_at]
NoEntry == [value |-> None, expires_at |-> 0]

\* the patterns of invalidation messages: a key, "*", a glob, a key not stored
Star == <<"*">>
PatternOf(k) == <<k>>
Patterns == {PatternOf(k) : k \in TierKeys} \cup {Star, <<"k", "*">>, <<"k3">>}

\* "*" in pattern (tiered.py:49)
HasStar(pattern) == \E i \in DOMAIN pattern : pattern[i] = "*"

\* MemoryCacheBackend.get (memory.py:16-26): the value, whatever its expiry
MemoryGet(data, k) == IF data[k] # NoEntry THEN data[k].value ELSE None

\* RedisCacheBackend.get (redis.py:39-45): the server has dropped a key whose
\* EX time has passed
RemoteGet(data, k) ==
    IF data[k] # NoEntry /\ now < data[k].expires_at THEN data[k].value ELSE None

\* l2.get(key)
L2Get(k) == IF l2kind = "memory" THEN MemoryGet(l2, k) ELSE RemoteGet(l2, k)

\* set(key, value, ttl_seconds) of either class (memory.py:35-37, redis.py:47-51)
BackendSet(data, k, v, ttl) == [data EXCEPT ![k] = Entry(v, now + ttl)]

\* delete(key) of either class (memory.py:39-40, redis.py:53-57)
BackendDelete(data, k) == [data EXCEPT ![k] = NoEntry]

\* MemoryCacheBackend.clear (memory.py:45-46)
MemoryClear(data) == [k \in DOMAIN data |-> NoEntry]

\* hasattr(self.l2, "publish_invalidation") (tiered.py:36, 85, 93)
L2Publishes == l2kind = "remote"

\* the ttl of a promoted entry (tiered.py:67) and the least ttl in L1 (tiered.py:80)
PromotionTtl == 60
MinL1Ttl == 60
\* l1_ttl_ratio = 0.1 (tiered.py:30), as a fraction
L1TtlRatioNum == 1
L1TtlRatioDen == 10

\* mutant: the scaled ttl without the floor of 60 seconds
L1TtlUnfloored(ttl) == (ttl * L1TtlRatioNum) \div L1TtlRatioDen

\* max(60, int(ttl_seconds * self.l1_ttl_ratio)) (tiered.py:80)
L1Ttl(ttl) ==
    LET scaled == (ttl * L1TtlRatioNum) \div L1TtlRatioDen
    IN  IF scaled > MinL1Ttl THEN scaled ELSE MinL1Ttl

\* no operation of the caller in progress
NoTierArgs == [op |-> "none", key |-> None, value |-> None, ttl |-> 0]

\* no tiered backend is being followed
TierUnused ==
    /\ l1 = [k \in TierKeys |-> NoEntry]
    /\ l2 = [k \in TierKeys |-> NoEntry]
    /\ l2kind = "memory"
    /\ channel = <<>>
    /\ tpc = "idle"
    /\ targs = NoTierArgs
    /\ tret = None
    /\ tops = 0
    /\ npeer = 0

\* the second instance makes at most MaxPeerOps calls of get
MaxPeerOps == 2
\* the ttl_seconds given to set where two instances share L2
SharedTtls == {2, 700}

\* no second instance is being followed
PeerUnused ==
    /\ peered = FALSE
    /\ pl1 = [k \in TierKeys |-> NoEntry]
    /\ pchannel = <<>>
    /\ ppc = "idle"
    /\ pkey = None
    /\ pret = None
    /\ pops = 0

(***************************************************************************)
(* CacheStats (stats.py): every operation runs under "with self._lock", a  *)
(* threading.Lock, which is not reentrant.                                 *)
(***************************************************************************)
\* the threads using the statistics, and the operations they begin
NStatThreads == 2
MaxStatOps == 3
StatThreads == 1..NStatThreads
Increments == {"increment_hit", "increment_miss", "increment_error", "increment_write"}
Rates == {"hit_rate", "miss_rate"}
StatOps == Increments \cup Rates \cup {"to_dict"}

\* no CacheStats is being followed
StatsUnused ==
    /\ slock = 0
    /\ spc = [t \in StatThreads |-> "idle"]
    /\ sop = [t \in StatThreads |-> "none"]
    /\ nstat = 0

(***************************************************************************)
(* CacheConfig.__post_init__ (cache.py:95-122): the validation of the      *)
(* options.                                                                *)
(***************************************************************************)
\* compression names: serializers.COMPRESSORS, and one that is not a compressor
Compressors == {"gzip", "lz4", "zstd", "none"}

\* the options given to CacheConfig(...): for each validated or bounded option
\* a value inside and a value outside its documented range
ConfigOptions ==
    [ttl_seconds : {-1, 0},
     max_bytes : {-1, 0},
     compression : {"gzip", "none", "brotli"},
     min_ttl : {-1, 0, 1},
     max_ttl : {-1, 0, 1},
     circuit_breaker_threshold : {0, 1},
     circuit_breaker_timeout : {-1, 0},
     deduplication_timeout_seconds : {0, 1},
     stale_while_revalidate_seconds : {-1, 0},
     max_stale_age_seconds : {-1, 0}]

\* __post_init__ (cache.py:100-122): raises ValueError or returns
PostInit(o) ==
    IF o.ttl_seconds < 0 THEN "ValueError"
    ELSE IF o.max_bytes < 0 THEN "ValueError"
    ELSE IF o.compression \notin Compressors THEN "ValueError"
    ELSE IF o.min_ttl < 0 \/ o.max_ttl < 0 THEN "ValueError"
    ELSE IF o.min_ttl > o.max_ttl THEN "ValueError"
    ELSE IF o.circuit_breaker_threshold < 1 THEN "ValueError"
    ELSE IF o.deduplication_timeout_seconds < 1 THEN "ValueError"
    ELSE "constructed"

\* no construction of CacheConfig is being followed
ConfigUnused ==
    /\ cargs = None
    /\ cret = <<>>

\* the parts of the module a specification does not drive
FunctionsUnused ==
    /\ TierUnused
    /\ PeerUnused
    /\ StatsUnused
    /\ ConfigUnused

(***************************************************************************)
(* No call in progress on the deduplicator.                                *)
(***************************************************************************)
DDDriverInit ==
    /\ ncalls = 0
    /\ dpc = [t \in Clients |-> "idle"]
    /\ dkey = [t \in Clients |-> 0]
    /\ dcall = [t \in Clients |-> 0]
    /\ devent = [t \in Clients |-> 0]
    /\ dout = [t \in Clients |-> Absent]
    /\ fout = [n \in CallIds |-> "none"]

(***************************************************************************)
(* SpecCB: callers of the breaker.  A caller is idle, has its operation    *)
(* running ("fn"), or holds the outcome of its call: "returned" (the       *)
(* operation's result), "raised" (the operation's exception) or            *)
(* "raised_open" (CircuitBreakerOpenError).                                *)
(* cadmit records how the running call was admitted: "closed" (the state   *)
(* was CLOSED), "probe" (this call moved OPEN to HALF_OPEN) or "half_open" *)
(* (the state was already HALF_OPEN).  nfailed counts the operations that  *)
(* have failed since the breaker was last put at CLOSED with count 0.      *)
(***************************************************************************)
CBDriverInit ==
    /\ cpc = [c \in Callers |-> "idle"]
    /\ cadmit = [c \in Callers |-> None]
    /\ nfailed = 0

InitCB ==
    /\ FunctionsUnused
    /\ now = 1
    /\ CircuitBreakerInit
    /\ CBDriverInit
    /\ DeduplicatorInit
    /\ DDDriverInit
    /\ FacadeUnused
    /\ NoMatcher
    /\ KeyInit

\* the count of failed operations restarts when a step puts the breaker at
\* CLOSED with count 0
Restarted == state' = CLOSED /\ failures' = 0 /\ (state # CLOSED \/ failures # 0)

\* a caller enters call(): lines 66-76
CBCall(c) ==
    /\ UNCHANGED notcb
    /\ cpc[c] = "idle"
    /\ CallBegin
    /\ IF CallRejected
       THEN /\ cpc' = [cpc EXCEPT ![c] = "raised_open"]
            /\ UNCHANGED cadmit
       ELSE \* line 80: fn() is invoked, outside the lock
            /\ cpc' = [cpc EXCEPT ![c] = "fn"]
            /\ cadmit' = [cadmit EXCEPT ![c] =
                            IF state = OPEN THEN "probe" ELSE state]
    /\ UNCHANGED <<now, nfailed>>

\* the operation returns: lines 80-89
CBSucceed(c) ==
    /\ UNCHANGED notcb
    /\ cpc[c] = "fn"
    /\ CallSuccess
    /\ cpc' = [cpc EXCEPT ![c] = "returned"]
    /\ nfailed' = IF Restarted THEN 0 ELSE nfailed
    /\ UNCHANGED <<now, cadmit>>

\* the operation raises: lines 91-105
CBFail(c) ==
    /\ UNCHANGED notcb
    /\ cpc[c] = "fn"
    /\ CallFailure
    /\ cpc' = [cpc EXCEPT ![c] = "raised"]
    /\ nfailed' = nfailed + 1
    /\ UNCHANGED <<now, cadmit>>

\* the caller takes the outcome of call() and may call again
CBReturn(c) ==
    /\ UNCHANGED notcb
    /\ cpc[c] \in {"returned", "raised", "raised_open"}
    /\ cpc' = [cpc EXCEPT ![c] = "idle"]
    /\ cadmit' = [cadmit EXCEPT ![c] = None]
    /\ UNCHANGED <<now, cbvars, nfailed>>

\* reset(), by any thread
CBReset ==
    /\ UNCHANGED notcb
    /\ ResetBreaker
    /\ nfailed' = IF Restarted THEN 0 ELSE nfailed
    /\ UNCHANGED <<now, cpc, cadmit>>

\* time passes
Tick ==
    /\ UNCHANGED notcb
    /\ now < MaxTime
    /\ now' = now + 1
    /\ UNCHANGED <<cbvars, cbdriver>>

NextCB ==
    \/ \E c \in Callers : CBCall(c)
    \/ \E c \in Callers : CBSucceed(c)
    \/ \E c \in Callers : CBFail(c)
    \/ \E c \in Callers : CBReturn(c)
    \/ CBReset
    \/ Tick

SpecCB == InitCB /\ [][NextCB]_vars

(***************************************************************************)
(* SpecDedup: clients of get_or_fetch.  A client is "idle", "fetching"     *)
(* (the fetcher, fetch_fn running), "fetched" (fetch_fn done, about to     *)
(* record), "finally" (recorded, about to signal), "waiting" (a waiter on  *)
(* the Event), "fallback" (a waiter running fetch_fn itself, under the     *)
(* lock), or holds the call's outcome: "returned" or "raised".             *)
(***************************************************************************)
InitDedup ==
    /\ FunctionsUnused
    /\ now = 1
    /\ CircuitBreakerInit
    /\ threshold = 1
    /\ timeout = 0
    /\ CBDriverInit
    /\ DeduplicatorInit
    /\ DDDriverInit
    /\ FacadeUnused
    /\ NoMatcher
    /\ KeyInit

\* a client calls get_or_fetch(k, fetch_fn): lines 46-57; the fetcher goes on
\* to invoke fetch_fn (line 62), a waiter to wait on the Event (line 81)
GofEnter(t, k) ==
    /\ ncalls' = ncalls + 1
    /\ Register(k, ncalls + 1)
    /\ dkey' = [dkey EXCEPT ![t] = k]
    /\ dcall' = [dcall EXCEPT ![t] = ncalls + 1]
    /\ devent' = [devent EXCEPT ![t] = IF ShouldFetch(k) THEN ncalls + 1 ELSE in_flight[k]]
    /\ dpc' = [dpc EXCEPT ![t] = IF ShouldFetch(k) THEN "fetching" ELSE "waiting"]
    /\ UNCHANGED <<dout, fout>>

\* a client of SpecDedup calls get_or_fetch
DDEnter(t, k) ==
    /\ UNCHANGED notdd
    /\ dpc[t] = "idle"
    /\ ncalls < MaxCalls
    /\ GofEnter(t, k)

\* the fetcher's fetch_fn returns (line 62)
DDFetchReturns(t) ==
    /\ UNCHANGED notdd
    /\ dpc[t] = "fetching"
    /\ dout' = [dout EXCEPT ![t] = Result(dcall[t])]
    /\ fout' = [fout EXCEPT ![dcall[t]] = "result"]
    /\ dpc' = [dpc EXCEPT ![t] = "fetched"]
    /\ UNCHANGED <<ddvars, ncalls, dkey, dcall, devent>>

\* the fetcher's fetch_fn raises (line 62)
DDFetchRaises(t) ==
    /\ UNCHANGED notdd
    /\ dpc[t] = "fetching"
    /\ dout' = [dout EXCEPT ![t] = Error(dcall[t])]
    /\ fout' = [fout EXCEPT ![dcall[t]] = "error"]
    /\ dpc' = [dpc EXCEPT ![t] = "fetched"]
    /\ UNCHANGED <<ddvars, ncalls, dkey, dcall, devent>>

\* the fetcher records the outcome under the lock: lines 63-67 or 69-72
DDRecord(t) ==
    /\ UNCHANGED notdd
    /\ dpc[t] = "fetched"
    /\ IF dout[t].kind = "result"
       THEN RecordResult(dkey[t], dout[t])
       ELSE RecordError(dkey[t], dout[t])
    /\ dpc' = [dpc EXCEPT ![t] = "finally"]
    /\ UNCHANGED <<ncalls, dkey, dcall, devent, dout, fout>>

\* the fetcher signals completion and starts the cleanup Timer: lines 74-78;
\* the call returns the result (line 68) or re-raises (line 73)
DDFinally(t) ==
    /\ UNCHANGED notdd
    /\ dpc[t] = "finally"
    /\ SignalAndSchedule(dkey[t], devent[t])
    /\ dpc' = [dpc EXCEPT ![t] = IF dout[t].kind = "result" THEN "returned" ELSE "raised"]
    /\ UNCHANGED <<ncalls, dkey, dcall, devent, dout, fout>>

\* a waiter has woken and reads the tables under the lock: lines 83-93
WaiterProceeds(t) ==
    /\ dlock = 0
    /\ LET got == WaiterReads(dkey[t]) IN
       /\ dout' = [dout EXCEPT ![t] = IF got.kind = "fetch" THEN Absent ELSE got]
       /\ dpc' = [dpc EXCEPT ![t] =
                    CASE got.kind = "error" -> "raised"
                      [] got.kind = "result" -> "returned"
                      [] OTHER -> "fallback"]
       \* line 93: fetch_fn() is invoked inside `with self._lock`
       /\ dlock' = IF got.kind = "fetch" THEN t ELSE dlock
    /\ UNCHANGED <<in_flight, results, errors, events, timers>>
    /\ UNCHANGED <<ncalls, dkey, dcall, devent, fout>>

\* event.wait returns because the Event was set (line 81)
DDWaiterWakes(t) ==
    /\ UNCHANGED notdd
    /\ dpc[t] = "waiting"
    /\ devent[t] \in events
    /\ WaiterProceeds(t)

\* event.wait returns because the timeout expired (line 81)
DDWaiterTimesOut(t) ==
    /\ UNCHANGED notdd
    /\ dpc[t] = "waiting"
    /\ devent[t] \notin events
    /\ WaiterProceeds(t)

\* the fetch_fn a waiter invoked itself returns (line 93); the lock is released
DDFallbackReturns(t) ==
    /\ UNCHANGED notdd
    /\ dpc[t] = "fallback"
    /\ dout' = [dout EXCEPT ![t] = Result(dcall[t])]
    /\ dpc' = [dpc EXCEPT ![t] = "returned"]
    /\ dlock' = 0
    /\ UNCHANGED <<in_flight, results, errors, events, timers>>
    /\ UNCHANGED <<ncalls, dkey, dcall, devent, fout>>

\* the fetch_fn a waiter invoked itself raises (line 93); the lock is released
DDFallbackRaises(t) ==
    /\ UNCHANGED notdd
    /\ dpc[t] = "fallback"
    /\ dout' = [dout EXCEPT ![t] = Error(dcall[t])]
    /\ dpc' = [dpc EXCEPT ![t] = "raised"]
    /\ dlock' = 0
    /\ UNCHANGED <<in_flight, results, errors, events, timers>>
    /\ UNCHANGED <<ncalls, dkey, dcall, devent, fout>>

\* a cleanup Timer fires: _cleanup(key), lines 95-100
DDCleanup(k) ==
    /\ UNCHANGED notdd
    /\ timers[k] > 0
    /\ Cleanup(k)
    /\ timers' = [timers EXCEPT ![k] = @ - 1]
    /\ UNCHANGED dddriver

\* the client takes the outcome of get_or_fetch and may call again
DDDone(t) ==
    /\ UNCHANGED notdd
    /\ dpc[t] \in {"returned", "raised"}
    /\ dpc' = [dpc EXCEPT ![t] = "idle"]
    /\ dkey' = [dkey EXCEPT ![t] = 0]
    /\ dcall' = [dcall EXCEPT ![t] = 0]
    /\ devent' = [devent EXCEPT ![t] = 0]
    /\ dout' = [dout EXCEPT ![t] = Absent]
    /\ UNCHANGED <<ddvars, ncalls, fout>>

NextDedup ==
    \/ \E t \in Clients, k \in Keys : DDEnter(t, k)
    \/ \E t \in Clients : DDFetchReturns(t)
    \/ \E t \in Clients : DDFetchRaises(t)
    \/ \E t \in Clients : DDRecord(t)
    \/ \E t \in Clients : DDFinally(t)
    \/ \E t \in Clients : DDWaiterWakes(t)
    \/ \E t \in Clients : DDWaiterTimesOut(t)
    \/ \E t \in Clients : DDFallbackReturns(t)
    \/ \E t \in Clients : DDFallbackRaises(t)
    \/ \E k \in Keys : DDCleanup(k)
    \/ \E t \in Clients : DDDone(t)

SpecDedup == InitDedup /\ [][NextDedup]_vars

\* SpecDedupLive: the threads are scheduled.  A thread that can take the lock
\* takes it, event.wait returns when the Event is set or the timeout expires
\* (line 81), a started Timer fires (line 78) and the fetch_fn of client 1
\* terminates; the fetch_fn of another client may never return.
DedupScheduling ==
    /\ \A t \in Clients :
          /\ WF_vars(DDRecord(t))
          /\ WF_vars(DDFinally(t))
          /\ WF_vars(DDWaiterWakes(t))
          /\ WF_vars(DDWaiterTimesOut(t))
          /\ WF_vars(DDDone(t))
    /\ \A k \in Keys : WF_vars(DDCleanup(k))
    /\ WF_vars(DDFetchReturns(1) \/ DDFetchRaises(1))
    /\ WF_vars(DDFallbackReturns(1) \/ DDFallbackRaises(1))

SpecDedupLive == SpecDedup /\ DedupScheduling

(***************************************************************************)
(* Spec: threads in CachedSgRequests.request.  A worker is "idle"; in      *)
(* _get_from_cache with backend.get running ("get_fn"), returned           *)
(* ("get_ok") or failed ("get_fail"); at the miss branch ("miss"); in      *)
(* get_or_fetch ("dedup", its position there being dpc); in a direct       *)
(* _fetch_response ("fetch"); at the write branch ("write"); in            *)
(* _set_to_cache with backend.set running ("set_fn"), returned ("set_ok")  *)
(* or failed ("set_fail"); or holds the outcome: "returned" or "raised".   *)
(* A refresher runs _background_refresh through the same positions.        *)
(***************************************************************************)
Init ==
    /\ FunctionsUnused
    /\ now = 1
    /\ FacadeInit
    /\ CircuitBreakerInit
    /\ threshold = cfg.circuit_breaker_threshold
    /\ timeout = cfg.circuit_breaker_timeout
    /\ CBDriverInit
    /\ DeduplicatorInit
    /\ DDDriverInit
    /\ NoMatcher
    /\ KeyInit

\* the breaker wraps the backend operations (cache.py:461, 473)
BreakerOn == cfg.enable_circuit_breaker

\* circuit_breaker.call up to fn(), if there is a breaker
EnterBreaker == IF BreakerOn THEN CallBegin ELSE UNCHANGED cbvars
Skipped == BreakerOn /\ CallRejected
\* circuit_breaker.call after fn() returned / raised
LeaveBreakerOk == IF BreakerOn THEN CallSuccess ELSE UNCHANGED cbvars
LeaveBreakerFailed == IF BreakerOn THEN CallFailure ELSE UNCHANGED cbvars

InRequest(t) == fpc[t] \notin {"idle", "returned", "raised"}

\* request(method, url, cache_read, cache_write, force_refresh): lines 252-284,
\* up to the invocation of backend.get
FRequest(t, k, cr, cw, fr) ==
    /\ fpc[t] = "idle"
    /\ nreq < MaxRequests
    /\ nreq' = nreq + 1
    /\ freq' = [freq EXCEPT ![t] =
                  [key |-> k, built |-> k,
                   cache_read |-> cr, cache_write |-> cw, force_refresh |-> fr,
                   refresh |-> FALSE, entry |-> store[k]]]
    /\ overlapped' = (overlapped \/ \A u \in Clients \ {t} : InRequest(u))
    /\ IF cr /\ ~fr
       THEN /\ EnterBreaker
            \* lines 464-467: an open circuit is a miss
            /\ fpc' = [fpc EXCEPT ![t] = IF Skipped THEN "miss" ELSE "get_fn"]
       ELSE /\ UNCHANGED cbvars
            /\ fpc' = [fpc EXCEPT ![t] = "miss"]
    /\ UNCHANGED <<now, cbdriver, fnvars, ddvars, dddriver, facvars>>
    /\ UNCHANGED <<fblob, fwrite, fresp, fstale, flabel, fnup, fwaited>>

\* backend.get returns the blob
FGetReturns(w) ==
    /\ fpc[w] = "get_fn"
    /\ fblob' = [fblob EXCEPT ![w] = store[freq[w].key]]
    /\ fpc' = [fpc EXCEPT ![w] = "get_ok"]
    /\ UNCHANGED <<now, cbvars, cbdriver, fnvars, ddvars, dddriver, facvars>>
    /\ UNCHANGED <<nreq, freq, fwrite, fresp, fstale, flabel, fnup, fwaited, overlapped>>

\* backend.get fails and returns None (backends/redis.py:39-45)
FGetSwallows(w) ==
    /\ fpc[w] = "get_fn"
    /\ cfg.backend = "swallowing"
    /\ fblob' = [fblob EXCEPT ![w] = NoBlob]
    /\ fpc' = [fpc EXCEPT ![w] = "get_ok"]
    /\ UNCHANGED <<now, cbvars, cbdriver, fnvars, ddvars, dddriver, facvars>>
    /\ UNCHANGED <<nreq, freq, fwrite, fresp, fstale, flabel, fnup, fwaited, overlapped>>

\* backend.get fails and raises
FGetRaises(w) ==
    /\ fpc[w] = "get_fn"
    /\ cfg.backend = "raising"
    /\ fpc' = [fpc EXCEPT ![w] = "get_fail"]
    /\ UNCHANGED <<now, cbvars, cbdriver, fnvars, ddvars, dddriver, facvars>>
    /\ UNCHANGED <<nreq, freq, fblob, fwrite, fresp, fstale, flabel, fnup, fwaited, overlapped>>

\* the exception of backend.get leaves the breaker (circuit_breaker.py:91-105),
\* _get_from_cache (only CircuitBreakerOpenError is caught there) and request()
FGetFail(w) ==
    /\ fpc[w] = "get_fail"
    /\ LeaveBreakerFailed
    /\ fresp' = [fresp EXCEPT ![w] = BackendError]
    /\ fpc' = [fpc EXCEPT ![w] = "raised"]
    /\ UNCHANGED <<now, cbdriver, fnvars, ddvars, dddriver, facvars>>
    /\ UNCHANGED <<nreq, freq, fblob, fwrite, fstale, flabel, fnup, fwaited, overlapped>>

\* stats.increment_hit
CountHit == stats' = [stats EXCEPT !.hits = @ + 1, !.total_requests = @ + 1]

\* lines 285-308: the blob is fresh and its response is returned
FHit(w) ==
    /\ fpc[w] = "get_ok"
    /\ fblob[w] # NoBlob
    /\ Readable(fblob[w])
    /\ Fresh(fblob[w])
    /\ LeaveBreakerOk
    /\ CountHit
    /\ flabel' = [flabel EXCEPT ![w] = "hit"]
    /\ fresp' = [fresp EXCEPT ![w] = Deserialize(fblob[w])]
    /\ fpc' = [fpc EXCEPT ![w] = "returned"]
    /\ UNCHANGED <<now, cbdriver, fnvars, ddvars, dddriver, cfg, store, calls>>
    /\ UNCHANGED <<nreq, freq, fblob, fwrite, fstale, fnup, fwaited, overlapped>>

\* lines 311-334: the blob is stale within the revalidation window; its response
\* is returned and the thread r is started on _background_refresh
FHitStale(w, r) ==
    /\ fpc[w] = "get_ok"
    /\ fblob[w] # NoBlob
    /\ Readable(fblob[w])
    /\ ~Fresh(fblob[w])
    /\ StaleRevalidatable(fblob[w])
    /\ fpc[r] = "idle"
    /\ LeaveBreakerOk
    /\ CountHit
    /\ flabel' = [flabel EXCEPT ![w] = "hit_stale"]
    /\ fresp' = [fresp EXCEPT ![w] = Deserialize(fblob[w])]
    /\ fpc' = [fpc EXCEPT ![w] = "returned", ![r] = "fetch"]
    /\ freq' = [freq EXCEPT ![r] = [freq[w] EXCEPT !.refresh = TRUE, !.entry = NoBlob]]
    /\ UNCHANGED <<now, cbdriver, fnvars, ddvars, dddriver, cfg, store, calls>>
    /\ UNCHANGED <<nreq, fblob, fwrite, fstale, fnup, fwaited, overlapped>>

\* line 285 or 311: no blob, or one too old to be served
FNoHit(w) ==
    /\ fpc[w] = "get_ok"
    /\ fblob[w] # NoBlob =>
          Readable(fblob[w]) /\ ~Fresh(fblob[w]) /\ ~StaleRevalidatable(fblob[w])
    /\ LeaveBreakerOk
    /\ fpc' = [fpc EXCEPT ![w] = "miss"]
    /\ UNCHANGED <<now, cbdriver, fnvars, ddvars, dddriver, facvars>>
    /\ UNCHANGED <<nreq, freq, fblob, fwrite, fresp, fstale, flabel, fnup, fwaited, overlapped>>

\* mutant: a forced refresh goes through the deduplicator too
UseDeduplicatorWhenForced(q) ==
    /\ cfg.enable_request_deduplication
    /\ q.cache_read \/ q.cache_write

\* line 351: the fetch goes through the deduplicator
UseDeduplicator(q) ==
    /\ cfg.enable_request_deduplication
    /\ q.cache_read \/ q.cache_write
    /\ ~q.force_refresh

\* stats.increment_miss
CountMiss == stats' = [stats EXCEPT !.misses = @ + 1, !.total_requests = @ + 1]

\* lines 345-355: a miss that enters get_or_fetch
FMissDedup(t) ==
    /\ fpc[t] = "miss"
    /\ UseDeduplicator(freq[t])
    /\ ncalls < MaxCalls
    /\ GofEnter(t, freq[t].key)
    /\ CountMiss
    /\ flabel' = [flabel EXCEPT ![t] = "miss"]
    /\ fwaited' = [fwaited EXCEPT ![t] = ~ShouldFetch(freq[t].key)]
    /\ fpc' = [fpc EXCEPT ![t] = "dedup"]
    /\ UNCHANGED <<now, cbvars, cbdriver, fnvars, cfg, store, calls>>
    /\ UNCHANGED <<nreq, freq, fblob, fwrite, fresp, fstale, fnup, overlapped>>

\* lines 345-357: a miss that calls _fetch_response directly
FMissDirect(t) ==
    /\ fpc[t] = "miss"
    /\ ~UseDeduplicator(freq[t])
    /\ CountMiss
    /\ flabel' = [flabel EXCEPT ![t] = "miss"]
    /\ fpc' = [fpc EXCEPT ![t] = "fetch"]
    /\ UNCHANGED <<now, cbvars, cbdriver, fnvars, ddvars, dddriver, cfg, store, calls>>
    /\ UNCHANGED <<nreq, freq, fblob, fwrite, fresp, fstale, fnup, fwaited, overlapped>>

\* _fetch_response is running in the worker: called directly (line 357 or 391),
\* as the fetcher's fetch_fn or as a waiter's own fetch_fn (line 354)
InFetch(w) ==
    \/ fpc[w] = "fetch"
    \/ fpc[w] = "dedup" /\ dpc[w] \in {"fetching", "fallback"}

\* _fetch_response ends with v, a response returned or an exception raised
Deliver(w, v) ==
    IF fpc[w] = "fetch"
    THEN /\ fresp' = [fresp EXCEPT ![w] = v]
         /\ fpc' = [fpc EXCEPT ![w] = IF v.kind = "result" THEN "write" ELSE "raised"]
         /\ UNCHANGED <<dpc, dout, dlock>>
    ELSE /\ dout' = [dout EXCEPT ![w] = v]
         /\ IF dpc[w] = "fetching"
            THEN /\ dpc' = [dpc EXCEPT ![w] = "fetched"]
                 /\ UNCHANGED dlock
            ELSE \* deduplication.py:93, the waiter's fetch_fn ran under the lock
                 /\ dpc' = [dpc EXCEPT ![w] = IF v.kind = "result" THEN "returned" ELSE "raised"]
                 /\ dlock' = 0
         /\ UNCHANGED <<fresp, fpc>>

\* the wrapped client is called
CallUpstream(w) ==
    /\ calls' = calls + 1
    /\ fnup' = [fnup EXCEPT ![w] = @ + 1]

\* line 412: the wrapped client answers
FUpstreamReturns(w, a) ==
    /\ InFetch(w)
    /\ fstale[w] = Absent
    /\ CallUpstream(w)
    /\ Deliver(w, Response(calls + 1, a))
    /\ UNCHANGED <<now, cbvars, cbdriver, fnvars, cfg, store, stats>>
    /\ UNCHANGED <<in_flight, results, errors, events, timers>>
    /\ UNCHANGED <<ncalls, dkey, dcall, devent, fout>>
    /\ UNCHANGED <<nreq, freq, fblob, fwrite, fstale, flabel, fwaited, overlapped>>

\* lines 413-415, 439: the wrapped client raises; the exception is raised again
\* unless a stale entry is to be looked for
FUpstreamRaises(w) ==
    /\ InFetch(w)
    /\ fstale[w] = Absent
    /\ CallUpstream(w)
    /\ IF cfg.serve_stale_on_error
       THEN /\ fstale' = [fstale EXCEPT ![w] = Error(calls + 1)]
            /\ UNCHANGED <<fresp, fpc, dpc, dout, dlock>>
       ELSE /\ Deliver(w, Error(calls + 1))
            /\ UNCHANGED fstale
    /\ UNCHANGED <<now, cbvars, cbdriver, fnvars, cfg, store, stats>>
    /\ UNCHANGED <<in_flight, results, errors, events, timers>>
    /\ UNCHANGED <<ncalls, dkey, dcall, devent, fout>>
    /\ UNCHANGED <<nreq, freq, fblob, fwrite, flabel, fwaited, overlapped>>

\* lines 416-439: the key is built by _build_key (line 425) and
\* self.backend.get(key) called, not through the breaker; a blob young enough
\* is returned as the response, else the upstream exception is raised again;
\* an exception of backend.get replaces it
FStaleRead(w) ==
    /\ InFetch(w)
    /\ fstale[w] # Absent
    /\ fstale' = [fstale EXCEPT ![w] = Absent]
    /\ LET b == store[freq[w].built] IN
       \/ IF b # NoBlob /\ Readable(b) /\ StaleUsable(b)
          THEN Deliver(w, Deserialize(b))
          ELSE Deliver(w, fstale[w])
       \/ cfg.backend = "swallowing" /\ Deliver(w, fstale[w])
       \/ cfg.backend = "raising" /\ Deliver(w, BackendError)
    /\ UNCHANGED <<now, cbvars, cbdriver, fnvars, facvars>>
    /\ UNCHANGED <<in_flight, results, errors, events, timers>>
    /\ UNCHANGED <<ncalls, dkey, dcall, devent, fout>>
    /\ UNCHANGED <<nreq, freq, fblob, fwrite, flabel, fnup, fwaited, overlapped>>

\* get_or_fetch has returned or raised (line 352)
FAfterDedup(t) ==
    /\ fpc[t] = "dedup"
    /\ dpc[t] \in {"returned", "raised"}
    /\ fresp' = [fresp EXCEPT ![t] = dout[t]]
    /\ fpc' = [fpc EXCEPT ![t] = IF dpc[t] = "returned" THEN "write" ELSE "raised"]
    /\ dpc' = [dpc EXCEPT ![t] = "idle"]
    /\ dkey' = [dkey EXCEPT ![t] = 0]
    /\ dcall' = [dcall EXCEPT ![t] = 0]
    /\ devent' = [devent EXCEPT ![t] = 0]
    /\ dout' = [dout EXCEPT ![t] = Absent]
    /\ UNCHANGED <<now, cbvars, cbdriver, fnvars, ddvars, ncalls, fout, facvars>>
    /\ UNCHANGED <<nreq, freq, fblob, fwrite, fstale, flabel, fnup, fwaited, overlapped>>

\* line 360 (request) or 392 (_background_refresh): the response is to be written
ToBeWritten(w) ==
    /\ freq[w].refresh \/ freq[w].cache_write
    /\ IsCacheable(fresp[w])

\* stats.increment_write, stats.increment_error: request() only
CountWrite(w) ==
    stats' = IF freq[w].refresh THEN stats ELSE [stats EXCEPT !.writes = @ + 1]
CountError(w) ==
    stats' = IF freq[w].refresh THEN stats ELSE [stats EXCEPT !.errors = @ + 1]

\* lines 382-386 (392): nothing is written
FNoWrite(w) ==
    /\ fpc[w] = "write"
    /\ ~ToBeWritten(w)
    /\ fpc' = [fpc EXCEPT ![w] = "returned"]
    /\ UNCHANGED <<now, cbvars, cbdriver, fnvars, ddvars, dddriver, facvars>>
    /\ UNCHANGED <<nreq, freq, fblob, fwrite, fresp, fstale, flabel, fnup, fwaited, overlapped>>

\* lines 360-372 (392-402): the response is serialized and _set_to_cache entered,
\* up to the invocation of backend.set; an open circuit skips the write (476-478)
FWrite(w) ==
    /\ fpc[w] = "write"
    /\ ToBeWritten(w)
    /\ fwrite' = [fwrite EXCEPT ![w] = Serialize(fresp[w])]
    /\ EnterBreaker
    /\ IF Skipped
       THEN /\ fpc' = [fpc EXCEPT ![w] = "returned"]
            /\ CountWrite(w)
       ELSE /\ fpc' = [fpc EXCEPT ![w] = "set_fn"]
            /\ UNCHANGED stats
    /\ UNCHANGED <<now, cbdriver, fnvars, ddvars, dddriver, cfg, store, calls>>
    /\ UNCHANGED <<nreq, freq, fblob, fresp, fstale, flabel, fnup, fwaited, overlapped>>

\* backend.set stores the blob
FSetReturns(w) ==
    /\ fpc[w] = "set_fn"
    /\ store' = [store EXCEPT ![freq[w].key] = fwrite[w]]
    /\ fpc' = [fpc EXCEPT ![w] = "set_ok"]
    /\ UNCHANGED <<now, cbvars, cbdriver, fnvars, ddvars, dddriver, cfg, calls, stats>>
    /\ UNCHANGED <<nreq, freq, fblob, fwrite, fresp, fstale, flabel, fnup, fwaited, overlapped>>

\* backend.set fails and returns (backends/redis.py:47-51)
FSetSwallows(w) ==
    /\ fpc[w] = "set_fn"
    /\ cfg.backend = "swallowing"
    /\ fpc' = [fpc EXCEPT ![w] = "set_ok"]
    /\ UNCHANGED <<now, cbvars, cbdriver, fnvars, ddvars, dddriver, facvars>>
    /\ UNCHANGED <<nreq, freq, fblob, fwrite, fresp, fstale, flabel, fnup, fwaited, overlapped>>

\* backend.set fails and raises
FSetRaises(w) ==
    /\ fpc[w] = "set_fn"
    /\ cfg.backend = "raising"
    /\ fpc' = [fpc EXCEPT ![w] = "set_fail"]
    /\ UNCHANGED <<now, cbvars, cbdriver, fnvars, ddvars, dddriver, facvars>>
    /\ UNCHANGED <<nreq, freq, fblob, fwrite, fresp, fstale, flabel, fnup, fwaited, overlapped>>

\* _set_to_cache returns: lines 373-376, 385-386
FSetOk(w) ==
    /\ fpc[w] = "set_ok"
    /\ LeaveBreakerOk
    /\ CountWrite(w)
    /\ fpc' = [fpc EXCEPT ![w] = "returned"]
    /\ UNCHANGED <<now, cbdriver, fnvars, ddvars, dddriver, cfg, store, calls>>
    /\ UNCHANGED <<nreq, freq, fblob, fwrite, fresp, fstale, flabel, fnup, fwaited, overlapped>>

\* _set_to_cache raises: the exception is caught at line 377 (405) and the
\* response returned all the same
FSetFail(w) ==
    /\ fpc[w] = "set_fail"
    /\ LeaveBreakerFailed
    /\ CountError(w)
    /\ fpc' = [fpc EXCEPT ![w] = "returned"]
    /\ UNCHANGED <<now, cbdriver, fnvars, ddvars, dddriver, cfg, store, calls>>
    /\ UNCHANGED <<nreq, freq, fblob, fwrite, fresp, fstale, flabel, fnup, fwaited, overlapped>>

\* the caller takes the outcome of request(); a refresh thread ends (an
\* exception of its fetch is swallowed at line 405)
FDone(w) ==
    /\ fpc[w] \in {"returned", "raised"}
    /\ fpc' = [fpc EXCEPT ![w] = "idle"]
    /\ freq' = [freq EXCEPT ![w] = NoRequest]
    /\ fblob' = [fblob EXCEPT ![w] = NoBlob]
    /\ fwrite' = [fwrite EXCEPT ![w] = NoBlob]
    /\ fresp' = [fresp EXCEPT ![w] = Absent]
    /\ flabel' = [flabel EXCEPT ![w] = ""]
    /\ fnup' = [fnup EXCEPT ![w] = 0]
    /\ fwaited' = [fwaited EXCEPT ![w] = FALSE]
    /\ UNCHANGED <<now, cbvars, cbdriver, fnvars, ddvars, dddriver, facvars>>
    /\ UNCHANGED <<nreq, fstale, overlapped>>

Next ==
    \/ \E t \in Clients, k \in RequestKeys, f \in RequestFlags :
          FRequest(t, k, f.cache_read, f.cache_write, f.force_refresh)
    \/ \E w \in Clients : FGetReturns(w)
    \/ \E w \in Clients : FGetSwallows(w)
    \/ \E w \in Clients : FGetRaises(w)
    \/ \E w \in Clients : FGetFail(w)
    \/ \E w \in Clients : FHit(w)
    \/ \E w \in Clients, r \in Refreshers : FHitStale(w, r)
    \/ \E w \in Clients : FNoHit(w)
    \/ \E t \in Clients : FMissDedup(t)
    \/ \E t \in Clients : FMissDirect(t)
    \/ \E w \in Workers, a \in UpstreamAnswers : FUpstreamReturns(w, a)
    \/ \E w \in Workers : FUpstreamRaises(w)
    \/ \E w \in Workers : FStaleRead(w)
    \/ \E t \in Clients : DDRecord(t)
    \/ \E t \in Clients : DDFinally(t)
    \/ \E t \in Clients : DDWaiterWakes(t)
    \/ \E t \in Clients : DDWaiterTimesOut(t)
    \/ \E k \in Keys : DDCleanup(k)
    \/ \E t \in Clients : FAfterDedup(t)
    \/ \E w \in Workers : FNoWrite(w)
    \/ \E w \in Workers : FWrite(w)
    \/ \E w \in Workers : FSetReturns(w)
    \/ \E w \in Workers : FSetSwallows(w)
    \/ \E w \in Workers : FSetRaises(w)
    \/ \E w \in Workers : FSetOk(w)
    \/ \E w \in Workers : FSetFail(w)
    \/ \E w \in Workers : FDone(w)
    \/ Tick

Spec == Init /\ [][Next]_vars

(***************************************************************************)
(* SpecWarm: a cached client built over a backend that already holds an    *)
(* entry under the key of the URLs requested, stored by an earlier run or  *)
(* damaged since.  The requests are made by URL.                           *)
(***************************************************************************)
\* request() calls made in a behaviour of SpecWarm
MaxWarmRequests == 2
\* background refresh threads alive at a time in SpecWarm
MaxWarmRefresh == 2

\* one thread calls request(), one call after the other
WarmClients == {1}
WarmRefreshers == (NClients + 1)..(NClients + MaxWarmRefresh)
WarmWorkers == Clients \cup WarmRefreshers

\* the URL as the string given to request() (the URLs requested have no query)
UrlString(u) ==
    <<u.scheme, "://", u.host>> \o u.path
        \o (IF u.fragment = <<>> THEN <<>> ELSE <<"#">> \o u.fragment)

\* https://example.com/a and https://example.com/a#x
PlainUrl == Url(<<"/", "a">>, <<>>)
WarmUrls == {PlainUrl, [PlainUrl EXCEPT !.fragment = <<"x">>]}

\* the exclude pattern "*#x"
ExcludeFragment == <<"*", "#", "x">>

\* the key of a GET of the URL, without body and headers
KeyOf(u) == BuildKey("GET", u, <<>>, NoHeaders, cfg)

\* a key_builder: f"{method}:{url}" (tests/test_cache.py:352-354)
CustomBuilder(method, u) == <<method, ":">> \o UrlString(u)

\* request, lines 276-280: the key of the request
RequestKey(u) ==
    IF cfg.key_builder # None THEN CustomBuilder("GET", u) ELSE KeyOf(u)
WarmKeys == {BuildKey("GET", u, <<>>, NoHeaders, BaseConfig) : u \in WarmUrls}

\* the configurations explored: every one excludes the URLs ending in "#x"
WarmBase == [BaseConfig EXCEPT !.exclude_patterns = <<ExcludeFragment>>]
WarmConfigs ==
    {[WarmBase EXCEPT !.backend = "reliable",
                      !.enable_request_deduplication = FALSE,
                      !.enable_circuit_breaker = FALSE,
                      !.stale_while_revalidate_seconds = 1,
                      !.serve_stale_on_error = TRUE],
     [WarmBase EXCEPT !.backend = "reliable",
                      !.stale_while_revalidate_seconds = 1,
                      !.serve_stale_on_error = TRUE],
     [WarmBase EXCEPT !.backend = "raising",
                      !.stale_while_revalidate_seconds = 1,
                      !.serve_stale_on_error = TRUE],
     [WarmBase EXCEPT !.backend = "raising",
                      !.enable_request_deduplication = FALSE,
                      !.enable_circuit_breaker = FALSE,
                      !.stale_while_revalidate_seconds = 1],
     [WarmBase EXCEPT !.backend = "swallowing",
                      !.enable_request_deduplication = FALSE,
                      !.enable_circuit_breaker = FALSE,
                      !.stale_while_revalidate_seconds = 1,
                      !.serve_stale_on_error = TRUE],
     [WarmBase EXCEPT !.backend = "swallowing",
                      !.serve_stale_on_error = TRUE]}

\* the arguments cache_read, cache_write and force_refresh of the requests
WarmFlags ==
    {[cache_read |-> TRUE, cache_write |-> TRUE, force_refresh |-> FALSE],
     [cache_read |-> FALSE, cache_write |-> TRUE, force_refresh |-> FALSE],
     [cache_read |-> TRUE, cache_write |-> FALSE, force_refresh |-> FALSE]}

\* what the wrapped client may answer
WarmAnswers ==
    {[status |-> 200, ctype |-> Text, size |-> 1],
     [status |-> 404, ctype |-> Text, size |-> 1]}

\* the entry an earlier run stored at time 1
OldEntry ==
    [kind |-> "blob", id |-> 0, status |-> 200, ctype |-> Text, size |-> 1,
     cached_at |-> 1]

\* CachedSgRequests.__init__ (cache.py:180-205) over the backend
InitWarm ==
    /\ FunctionsUnused
    /\ now = 2
    /\ cfg \in WarmConfigs
    /\ store \in [WarmKeys -> {OldEntry, CorruptBlob}]
    /\ calls = 0
    /\ nreq = 0
    /\ stats = NoStats
    /\ fpc = [w \in WarmWorkers |-> "idle"]
    /\ freq = [w \in WarmWorkers |-> NoRequest]
    /\ fblob = [w \in WarmWorkers |-> NoBlob]
    /\ fwrite = [w \in WarmWorkers |-> NoBlob]
    /\ fresp = [w \in WarmWorkers |-> Absent]
    /\ fstale = [w \in WarmWorkers |-> Absent]
    /\ flabel = [w \in WarmWorkers |-> ""]
    /\ fnup = [w \in WarmWorkers |-> 0]
    /\ fwaited = [w \in WarmWorkers |-> FALSE]
    /\ overlapped = FALSE
    /\ CircuitBreakerInit
    /\ threshold = cfg.circuit_breaker_threshold
    /\ timeout = cfg.circuit_breaker_timeout
    /\ CBDriverInit
    /\ in_flight = [k \in WarmKeys |-> NotInFlight]
    /\ results = [k \in WarmKeys |-> Absent]
    /\ errors = [k \in WarmKeys |-> Absent]
    /\ dlock = 0
    /\ events = {}
    /\ timers = [k \in WarmKeys |-> 0]
    /\ DDDriverInit
    /\ include_patterns = cfg.cache_patterns
    /\ exclude_patterns = cfg.exclude_patterns
    /\ murl = None
    /\ mret = <<>>
    /\ KeyInit

\* request("GET", url, cache_read, cache_write, force_refresh): lines 252-284,
\* up to the invocation of backend.get; the URL policy may veto the cache
\* (lines 263-265) and the key is built from the URL (lines 276-280)
\* (the request remembers its URL, the verdict of the policy and the refresh
\* threads that had ended when it began)
FRequestUrl(t, u, cr, cw, fr) ==
    LET allowed == ShouldCache(UrlString(u))
        cache_read == cr /\ allowed
        cache_write == cw /\ allowed
    IN  /\ fpc[t] = "idle"
        /\ nreq < MaxWarmRequests
        /\ nreq' = nreq + 1
        /\ freq' = [freq EXCEPT ![t] =
                      [key |-> RequestKey(u), built |-> KeyOf(u),
                       cache_read |-> cache_read,
                       cache_write |-> cache_write, force_refresh |-> fr,
                       refresh |-> FALSE, entry |-> store[RequestKey(u)],
                       url |-> u, allowed |-> allowed,
                       done |-> {r \in WarmRefreshers : fpc[r] = "returned"}]]
        /\ overlapped' = (overlapped \/ \A o \in Clients \ {t} : InRequest(o))
        /\ IF cache_read /\ ~fr
           THEN /\ EnterBreaker
                /\ fpc' = [fpc EXCEPT ![t] = IF Skipped THEN "miss" ELSE "get_fn"]
           ELSE /\ UNCHANGED cbvars
                /\ fpc' = [fpc EXCEPT ![t] = "miss"]
        /\ UNCHANGED <<now, cbdriver, fnvars, ddvars, dddriver, facvars>>
        /\ UNCHANGED <<fblob, fwrite, fresp, fstale, flabel, fnup, fwaited>>

\* mutant: the corrupt entry is counted as an error but left in the backend
FCorruptKeepsKey(w) ==
    /\ fpc[w] = "get_ok"
    /\ fblob[w] # NoBlob
    /\ ~Readable(fblob[w])
    /\ LeaveBreakerOk
    /\ stats' = [stats EXCEPT !.errors = @ + 1]
    /\ fpc' = [fpc EXCEPT ![w] = "miss"]
    /\ UNCHANGED <<now, cbdriver, fnvars, ddvars, dddriver, cfg, store, calls>>
    /\ UNCHANGED <<nreq, freq, fblob, fwrite, fresp, fstale, flabel, fnup, fwaited, overlapped>>

\* lines 336-342: deserialize_response raises on the blob; the error is counted
\* and backend.delete(key) called, not through the breaker: the key is deleted,
\* or the backend fails and swallows the failure (backends/redis.py:53-57), or
\* it fails and its exception leaves request()
FCorrupt(w) ==
    /\ fpc[w] = "get_ok"
    /\ fblob[w] # NoBlob
    /\ ~Readable(fblob[w])
    /\ LeaveBreakerOk
    /\ stats' = [stats EXCEPT !.errors = @ + 1]
    /\ \/ /\ store' = [store EXCEPT ![freq[w].key] = NoBlob]
          /\ fpc' = [fpc EXCEPT ![w] = "miss"]
          /\ UNCHANGED fresp
       \/ /\ cfg.backend = "swallowing"
          /\ fpc' = [fpc EXCEPT ![w] = "miss"]
          /\ UNCHANGED <<store, fresp>>
       \/ /\ cfg.backend = "raising"
          /\ fpc' = [fpc EXCEPT ![w] = "raised"]
          /\ fresp' = [fresp EXCEPT ![w] = BackendError]
          /\ UNCHANGED store
    /\ UNCHANGED <<now, cbdriver, fnvars, ddvars, dddriver, cfg, calls>>
    /\ UNCHANGED <<nreq, freq, fblob, fwrite, fstale, flabel, fnup, fwaited, overlapped>>

\* a stale hit starts a new thread: the first that is not running
FHitStaleSpawn(w) ==
    \E r \in WarmRefreshers :
        /\ \A o \in WarmRefreshers : o < r => fpc[o] # "idle"
        /\ FHitStale(w, r)

NextWarm ==
    \/ \E t \in WarmClients, u \in WarmUrls, f \in WarmFlags :
          FRequestUrl(t, u, f.cache_read, f.cache_write, f.force_refresh)
    \/ \E w \in WarmClients : FGetReturns(w)
    \/ \E w \in WarmClients : FGetSwallows(w)
    \/ \E w \in WarmClients : FGetRaises(w)
    \/ \E w \in WarmClients : FGetFail(w)
    \/ \E w \in WarmClients : FHit(w)
    \/ \E w \in WarmClients : FHitStaleSpawn(w)
    \/ \E w \in WarmClients : FCorrupt(w)
    \/ \E w \in WarmClients : FNoHit(w)
    \/ \E t \in WarmClients : FMissDedup(t)
    \/ \E t \in WarmClients : FMissDirect(t)
    \/ \E w \in WarmWorkers, a \in WarmAnswers : FUpstreamReturns(w, a)
    \/ \E w \in WarmWorkers : FUpstreamRaises(w)
    \/ \E w \in WarmWorkers : FStaleRead(w)
    \/ \E t \in WarmClients : DDRecord(t)
    \/ \E t \in WarmClients : DDFinally(t)
    \/ \E k \in WarmKeys : DDCleanup(k)
    \/ \E t \in WarmClients : FAfterDedup(t)
    \/ \E w \in WarmWorkers : FNoWrite(w)
    \/ \E w \in WarmWorkers : FWrite(w)
    \/ \E w \in WarmWorkers : FSetReturns(w)
    \/ \E w \in WarmWorkers : FSetSwallows(w)
    \/ \E w \in WarmWorkers : FSetRaises(w)
    \/ \E w \in WarmWorkers : FSetOk(w)
    \/ \E w \in WarmWorkers : FSetFail(w)
    \/ \E w \in WarmWorkers : FDone(w)
    \/ Tick

SpecWarm == InitWarm /\ [][NextWarm]_vars

(***************************************************************************)
(* SpecBuilder: a cached client configured with a key_builder, over a      *)
(* backend that may hold entries under the builder's key and under the key *)
(* of _build_key.                                                          *)
(***************************************************************************)
\* the configuration: CacheConfig(key_builder=custom_builder, ...)
BuilderConfig ==
    [WarmBase EXCEPT !.backend = "reliable",
                     !.enable_request_deduplication = FALSE,
                     !.enable_circuit_breaker = FALSE,
                     !.stale_while_revalidate_seconds = 1,
                     !.serve_stale_on_error = TRUE,
                     !.key_builder = "custom_builder"]

\* the keys the backend may hold for the URL requested
BuilderKeys ==
    {BuildKey("GET", PlainUrl, <<>>, NoHeaders, BuilderConfig),
     CustomBuilder("GET", PlainUrl)}

\* CachedSgRequests.__init__ (cache.py:180-205) over the backend
InitBuilder ==
    /\ FunctionsUnused
    /\ now = 2
    /\ cfg = BuilderConfig
    /\ store \in [BuilderKeys -> {NoBlob, OldEntry, CorruptBlob}]
    /\ calls = 0
    /\ nreq = 0
    /\ stats = NoStats
    /\ fpc = [w \in WarmWorkers |-> "idle"]
    /\ freq = [w \in WarmWorkers |-> NoRequest]
    /\ fblob = [w \in WarmWorkers |-> NoBlob]
    /\ fwrite = [w \in WarmWorkers |-> NoBlob]
    /\ fresp = [w \in WarmWorkers |-> Absent]
    /\ fstale = [w \in WarmWorkers |-> Absent]
    /\ flabel = [w \in WarmWorkers |-> ""]
    /\ fnup = [w \in WarmWorkers |-> 0]
    /\ fwaited = [w \in WarmWorkers |-> FALSE]
    /\ overlapped = FALSE
    /\ CircuitBreakerInit
    /\ threshold = cfg.circuit_breaker_threshold
    /\ timeout = cfg.circuit_breaker_timeout
    /\ CBDriverInit
    /\ in_flight = [k \in BuilderKeys |-> NotInFlight]
    /\ results = [k \in BuilderKeys |-> Absent]
    /\ errors = [k \in BuilderKeys |-> Absent]
    /\ dlock = 0
    /\ events = {}
    /\ timers = [k \in BuilderKeys |-> 0]
    /\ DDDriverInit
    /\ include_patterns = cfg.cache_patterns
    /\ exclude_patterns = cfg.exclude_patterns
    /\ murl = None
    /\ mret = <<>>
    /\ KeyInit

NextBuilder ==
    \/ \E t \in WarmClients, f \in WarmFlags :
          FRequestUrl(t, PlainUrl, f.cache_read, f.cache_write, f.force_refresh)
    \/ \E w \in WarmClients : FGetReturns(w)
    \/ \E w \in WarmClients : FHit(w)
    \/ \E w \in WarmClients : FHitStaleSpawn(w)
    \/ \E w \in WarmClients : FCorrupt(w)
    \/ \E w \in WarmClients : FNoHit(w)
    \/ \E t \in WarmClients : FMissDirect(t)
    \/ \E w \in WarmWorkers, a \in WarmAnswers : FUpstreamReturns(w, a)
    \/ \E w \in WarmWorkers : FUpstreamRaises(w)
    \/ \E w \in WarmWorkers : FStaleRead(w)
    \/ \E w \in WarmWorkers : FNoWrite(w)
    \/ \E w \in WarmWorkers : FWrite(w)
    \/ \E w \in WarmWorkers : FSetReturns(w)
    \/ \E w \in WarmWorkers : FSetOk(w)
    \/ \E w \in WarmWorkers : FDone(w)
    \/ Tick

SpecBuilder == InitBuilder /\ [][NextBuilder]_vars

(***************************************************************************)
(* SpecKey: _build_key is called for two requests.                         *)
(***************************************************************************)
InitKey ==
    /\ FunctionsUnused
    /\ now = 1
    /\ CircuitBreakerInit
    /\ threshold = 1
    /\ timeout = 0
    /\ CBDriverInit
    /\ DeduplicatorInit
    /\ DDDriverInit
    /\ FacadeUnused
    /\ NoMatcher
    /\ kargs \in KeyCalls \X KeyCalls
    /\ kret = <<>>

\* the keys of the two requests are built
KBuild ==
    /\ kret = <<>>
    /\ kret' = <<BuildKey(kargs[1].method, kargs[1].url, kargs[1].content,
                          kargs[1].headers, KeyConfig(kargs[1])),
                 BuildKey(kargs[2].method, kargs[2].url, kargs[2].content,
                          kargs[2].headers, KeyConfig(kargs[2]))>>
    /\ UNCHANGED <<now, cbvars, cbdriver, ddvars, dddriver, facvars, facdriver>>
    /\ UNCHANGED <<matchvars, kargs, tiervars, confvars, peervars, statvars>>

NextKey == KBuild

SpecKey == InitKey /\ [][NextKey]_vars

(***************************************************************************)
(* SpecMatch: should_cache is called on a URLMatcher.                      *)
(***************************************************************************)
\* URLMatcher(include_patterns, exclude_patterns) (patterns.py:11-34)
InitMatch ==
    /\ FunctionsUnused
    /\ now = 1
    /\ CircuitBreakerInit
    /\ threshold = 1
    /\ timeout = 0
    /\ CBDriverInit
    /\ DeduplicatorInit
    /\ DDDriverInit
    /\ FacadeUnused
    /\ KeyInit
    /\ include_patterns \in PatternLists
    /\ exclude_patterns \in PatternLists
    /\ murl \in MatcherUrls
    /\ mret = <<>>

\* should_cache(url) returns
MShouldCache ==
    /\ mret = <<>>
    /\ mret' = <<ShouldCache(murl)>>
    /\ UNCHANGED <<now, cbvars, cbdriver, ddvars, dddriver, facvars, facdriver>>
    /\ UNCHANGED <<include_patterns, exclude_patterns, murl, keyvars, tiervars, confvars, peervars, statvars>>

NextMatch == MShouldCache

SpecMatch == InitMatch /\ [][NextMatch]_vars

(***************************************************************************)
(* SpecTiered: one caller of a TieredCacheBackend, the listener thread of  *)
(* its L2's DistributedInvalidator (invalidation.py) and the other         *)
(* instances that publish on the channel.                                  *)
(***************************************************************************)
\* TieredCacheBackend(l1, l2) (tiered.py:30-37) over two empty backends
InitTiered ==
    /\ now = 1
    /\ CircuitBreakerInit
    /\ threshold = 1
    /\ timeout = 0
    /\ CBDriverInit
    /\ DeduplicatorInit
    /\ DDDriverInit
    /\ FacadeUnused
    /\ NoMatcher
    /\ KeyInit
    /\ ConfigUnused
    /\ PeerUnused
    /\ StatsUnused
    /\ l1 = [k \in TierKeys |-> NoEntry]
    /\ l2 = [k \in TierKeys |-> NoEntry]
    /\ l2kind \in {"memory", "remote"}
    /\ channel = <<>>
    /\ tpc = "idle"
    /\ targs = NoTierArgs
    /\ tret = None
    /\ tops = 0
    /\ npeer = 0

\* what no action of the tiered backend changes
TierFrame ==
    /\ UNCHANGED <<now, cbvars, cbdriver, ddvars, dddriver, facvars, facdriver>>
    /\ UNCHANGED <<matchvars, keyvars, confvars, l2kind>>
    /\ UNCHANGED <<peered, pl1, ppc, pkey, pret, pops, statvars>>

\* the caller begins an operation
TierBegin(op, k, v, ttl) ==
    /\ tpc = "idle"
    /\ tops < MaxTierOps
    /\ tops' = tops + 1
    /\ targs' = [op |-> op, key |-> k, value |-> v, ttl |-> ttl]

\* get, lines 58-60: the value of L1 is returned if there is one
TGetL1(k) ==
    /\ TierBegin("get", k, None, 0)
    /\ tret' = MemoryGet(l1, k)
    /\ tpc' = IF MemoryGet(l1, k) # None THEN "done" ELSE "get_l2"
    /\ UNCHANGED <<l1, l2, channel, npeer>>
    /\ UNCHANGED pchannel
    /\ TierFrame

\* get, lines 63-64, 75: L2 is read; None is returned if it has no value
TGetL2 ==
    /\ tpc = "get_l2"
    /\ tret' = L2Get(targs.key)
    /\ tpc' = IF L2Get(targs.key) # None THEN "promote" ELSE "done"
    /\ UNCHANGED <<l1, l2, channel, targs, tops, npeer>>
    /\ UNCHANGED pchannel
    /\ TierFrame

\* mutant: the value found in L2 is returned without being stored in L1
TPromoteSkipped ==
    /\ tpc = "promote"
    /\ tpc' = "done"
    /\ UNCHANGED <<l1, l2, channel, targs, tret, tops, npeer>>
    /\ UNCHANGED pchannel
    /\ TierFrame

\* get, lines 66-73: the value found in L2 is stored in L1 and returned
TPromote ==
    /\ tpc = "promote"
    /\ l1' = BackendSet(l1, targs.key, tret, PromotionTtl)
    /\ tpc' = "done"
    /\ UNCHANGED <<l2, channel, targs, tret, tops, npeer>>
    /\ UNCHANGED pchannel
    /\ TierFrame

\* set, lines 80-81: L1 is written with its shorter ttl
TSetL1(k, v, ttl) ==
    /\ TierBegin("set", k, v, ttl)
    /\ l1' = BackendSet(l1, k, v, L1Ttl(ttl))
    /\ tpc' = "set_l2"
    /\ UNCHANGED <<l2, channel, tret, npeer>>
    /\ UNCHANGED pchannel
    /\ TierFrame

\* set, line 82: L2 is written with the full ttl
TSetL2 ==
    /\ tpc = "set_l2"
    /\ l2' = BackendSet(l2, targs.key, targs.value, targs.ttl)
    /\ tpc' = IF L2Publishes THEN "publish" ELSE "done"
    /\ UNCHANGED <<l1, channel, targs, tret, tops, npeer>>
    /\ UNCHANGED pchannel
    /\ TierFrame

\* delete, line 90
TDeleteL1(k) ==
    /\ TierBegin("delete", k, None, 0)
    /\ l1' = BackendDelete(l1, k)
    /\ tpc' = "delete_l2"
    /\ UNCHANGED <<l2, channel, tret, npeer>>
    /\ UNCHANGED pchannel
    /\ TierFrame

\* delete, line 91
TDeleteL2 ==
    /\ tpc = "delete_l2"
    /\ l2' = BackendDelete(l2, targs.key)
    /\ tpc' = IF L2Publishes THEN "publish" ELSE "done"
    /\ UNCHANGED <<l1, channel, targs, tret, tops, npeer>>
    /\ UNCHANGED pchannel
    /\ TierFrame

\* set, lines 85-86, and delete, lines 93-94: publish_invalidation(key)
\* (redis.py:72-79, invalidation.py:56-61); the server hands the message to
\* every subscriber of the channel, the listener of this instance among them
TPublish ==
    /\ tpc = "publish"
    /\ channel' = Append(channel, PatternOf(targs.key))
    /\ pchannel' = IF peered THEN Append(pchannel, PatternOf(targs.key)) ELSE pchannel
    /\ tpc' = "done"
    /\ UNCHANGED <<l1, l2, targs, tret, tops, npeer>>
    /\ TierFrame

\* clear_l1 (tiered.py:100-103)
TClearL1 ==
    /\ TierBegin("clear_l1", None, None, 0)
    /\ l1' = MemoryClear(l1)
    /\ tpc' = "done"
    /\ UNCHANGED <<l2, channel, tret, npeer>>
    /\ UNCHANGED pchannel
    /\ TierFrame

\* the operation returns to the caller
TReturn ==
    /\ tpc = "done"
    /\ tpc' = "idle"
    /\ targs' = NoTierArgs
    /\ tret' = None
    /\ UNCHANGED <<l1, l2, channel, tops, npeer>>
    /\ UNCHANGED pchannel
    /\ TierFrame

\* self.l1.delete(pattern) (tiered.py:50): the key that is the pattern, if any
L1DeletePattern(pattern) ==
    [k \in TierKeys |-> IF PatternOf(k) = pattern THEN NoEntry ELSE l1[k]]

\* mutant: L1 is cleared on any invalidation
OnInvalidationClears(pattern) == MemoryClear(l1)

\* _on_invalidation (tiered.py:39-53): L1 after the message
OnInvalidation(pattern) ==
    IF pattern = Star THEN MemoryClear(l1)
    ELSE IF ~HasStar(pattern) THEN L1DeletePattern(pattern)
    ELSE MemoryClear(l1)

\* the listener thread takes the next message (invalidation.py:63-74) and
\* calls _on_invalidation
TListen ==
    /\ channel # <<>>
    /\ l1' = OnInvalidation(Head(channel))
    /\ channel' = Tail(channel)
    /\ UNCHANGED <<l2, tpc, targs, tret, tops, npeer>>
    /\ UNCHANGED pchannel
    /\ TierFrame

\* another instance publishes an invalidation (invalidation.py:56-61)
PeerPublishes(pattern) ==
    /\ L2Publishes
    /\ npeer < MaxPeerMsgs
    /\ npeer' = npeer + 1
    /\ channel' = Append(channel, pattern)
    /\ UNCHANGED <<l1, l2, tpc, targs, tret, tops>>
    /\ UNCHANGED pchannel
    /\ TierFrame

NextTiered ==
    \/ \E k \in TierKeys : TGetL1(k)
    \/ TGetL2
    \/ TPromote
    \/ \E k \in TierKeys, v \in TierValues, ttl \in TierTtls : TSetL1(k, v, ttl)
    \/ TSetL2
    \/ \E k \in TierKeys : TDeleteL1(k)
    \/ TDeleteL2
    \/ TPublish
    \/ TClearL1
    \/ TReturn
    \/ TListen
    \/ \E pattern \in Patterns : PeerPublishes(pattern)
    \/ Tick

SpecTiered == InitTiered /\ [][NextTiered]_vars

(***************************************************************************)
(* SpecPeers: two TieredCacheBackends in two processes over one            *)
(* RedisCacheBackend, both subscribed to the invalidation channel.  The    *)
(* first is written by its caller (set and delete); the caller of the      *)
(* second reads (get).                                                     *)
(***************************************************************************)
\* TieredCacheBackend(l1, l2) (tiered.py:30-37), twice over the same L2
InitPeers ==
    /\ now = 1
    /\ CircuitBreakerInit
    /\ threshold = 1
    /\ timeout = 0
    /\ CBDriverInit
    /\ DeduplicatorInit
    /\ DDDriverInit
    /\ FacadeUnused
    /\ NoMatcher
    /\ KeyInit
    /\ ConfigUnused
    /\ StatsUnused
    /\ l1 = [k \in TierKeys |-> NoEntry]
    /\ l2 = [k \in TierKeys |-> NoEntry]
    /\ l2kind = "remote"
    /\ channel = <<>>
    /\ tpc = "idle"
    /\ targs = NoTierArgs
    /\ tret = None
    /\ tops = 0
    /\ npeer = 0
    /\ peered = TRUE
    /\ pl1 = [k \in TierKeys |-> NoEntry]
    /\ pchannel = <<>>
    /\ ppc = "idle"
    /\ pkey = None
    /\ pret = None
    /\ pops = 0

\* what no action of the second instance changes
PeerFrame ==
    /\ UNCHANGED <<now, cbvars, cbdriver, ddvars, dddriver, facvars, facdriver>>
    /\ UNCHANGED <<matchvars, keyvars, confvars, tiervars, peered, statvars>>

\* get of the second instance, lines 58-60
PeerGetL1(k) ==
    /\ ppc = "idle"
    /\ pops < MaxPeerOps
    /\ pops' = pops + 1
    /\ pkey' = k
    /\ pret' = MemoryGet(pl1, k)
    /\ ppc' = IF MemoryGet(pl1, k) # None THEN "done" ELSE "get_l2"
    /\ UNCHANGED <<pl1, pchannel>>
    /\ PeerFrame

\* get of the second instance, lines 63-64, 75
PeerGetL2 ==
    /\ ppc = "get_l2"
    /\ pret' = L2Get(pkey)
    /\ ppc' = IF L2Get(pkey) # None THEN "promote" ELSE "done"
    /\ UNCHANGED <<pl1, pchannel, pkey, pops>>
    /\ PeerFrame

\* get of the second instance, lines 66-73
PeerPromote ==
    /\ ppc = "promote"
    /\ pl1' = BackendSet(pl1, pkey, pret, PromotionTtl)
    /\ ppc' = "done"
    /\ UNCHANGED <<pchannel, pkey, pret, pops>>
    /\ PeerFrame

\* get of the second instance returns
PeerReturn ==
    /\ ppc = "done"
    /\ ppc' = "idle"
    /\ pkey' = None
    /\ pret' = None
    /\ UNCHANGED <<pl1, pchannel, pops>>
    /\ PeerFrame

\* the listener thread of the second instance takes the next message
\* (invalidation.py:63-74) and calls _on_invalidation (tiered.py:39-53) on a
\* pattern without "*": self.l1.delete(pattern)
PeerListen ==
    /\ pchannel # <<>>
    /\ pl1' = [k \in TierKeys |->
                  IF PatternOf(k) = Head(pchannel) THEN NoEntry ELSE pl1[k]]
    /\ pchannel' = Tail(pchannel)
    /\ UNCHANGED <<ppc, pkey, pret, pops>>
    /\ PeerFrame

NextPeers ==
    \/ \E k \in TierKeys, v \in TierValues, ttl \in SharedTtls : TSetL1(k, v, ttl)
    \/ TSetL2
    \/ \E k \in TierKeys : TDeleteL1(k)
    \/ TDeleteL2
    \/ TPublish
    \/ TReturn
    \/ TListen
    \/ \E k \in TierKeys : PeerGetL1(k)
    \/ PeerGetL2
    \/ PeerPromote
    \/ PeerReturn
    \/ PeerListen

SpecPeers == InitPeers /\ [][NextPeers]_vars

(***************************************************************************)
(* SpecStats: threads call the operations of one CacheStats.  A thread is  *)
(* idle, waits for the mutex ("acquire"), holds it ("locked"), or has      *)
(* returned ("done"); in to_dict it evaluates self.hit_rate and            *)
(* self.miss_rate while holding the mutex (lines 87-88), waiting for the   *)
(* mutex again at line 49 ("nested_hit") and at line 56 ("nested_miss").   *)
(* SpecStatsLive adds the scheduling of the threads.                       *)
(***************************************************************************)
InitStats ==
    /\ now = 1
    /\ CircuitBreakerInit
    /\ threshold = 1
    /\ timeout = 0
    /\ CBDriverInit
    /\ DeduplicatorInit
    /\ DDDriverInit
    /\ FacadeUnused
    /\ NoMatcher
    /\ KeyInit
    /\ TierUnused
    /\ PeerUnused
    /\ ConfigUnused
    /\ StatsUnused

\* what no operation of CacheStats changes
StatsFrame ==
    /\ UNCHANGED <<now, cbvars, cbdriver, ddvars, dddriver, facdriver>>
    /\ UNCHANGED <<cfg, store, calls>>
    /\ UNCHANGED <<matchvars, keyvars, tiervars, confvars, peervars>>

\* a thread calls an operation and reaches its "with self._lock"
SBegin(t, op) ==
    /\ spc[t] = "idle"
    /\ nstat < MaxStatOps
    /\ nstat' = nstat + 1
    /\ sop' = [sop EXCEPT ![t] = op]
    /\ spc' = [spc EXCEPT ![t] = "acquire"]
    /\ UNCHANGED <<slock, stats>>
    /\ StatsFrame

\* "with self._lock" (lines 24, 31, 37, 42, 49, 56, 78): Lock.acquire returns
\* when the lock is free, whoever holds it
SAcquire(t) ==
    /\ spc[t] \in {"acquire", "nested_hit", "nested_miss"}
    /\ slock = 0
    /\ slock' = t
    /\ spc' = [spc EXCEPT ![t] =
                  CASE spc[t] = "acquire" -> "locked"
                    [] spc[t] = "nested_hit" -> "in_hit"
                    [] spc[t] = "nested_miss" -> "in_miss"]
    /\ UNCHANGED <<sop, nstat, stats>>
    /\ StatsFrame

\* increment_hit, increment_miss, increment_error, increment_write
\* (lines 22-44): the counters are updated and the lock released
SIncrement(t) ==
    /\ spc[t] = "locked"
    /\ sop[t] \in Increments
    /\ stats' =
          CASE sop[t] = "increment_hit" ->
                  [stats EXCEPT !.hits = @ + 1, !.total_requests = @ + 1]
            [] sop[t] = "increment_miss" ->
                  [stats EXCEPT !.misses = @ + 1, !.total_requests = @ + 1]
            [] sop[t] = "increment_error" -> [stats EXCEPT !.errors = @ + 1]
            [] sop[t] = "increment_write" -> [stats EXCEPT !.writes = @ + 1]
    /\ slock' = 0
    /\ spc' = [spc EXCEPT ![t] = "done"]
    /\ UNCHANGED <<sop, nstat>>
    /\ StatsFrame

\* hit_rate, miss_rate (lines 46-57): the rate is computed and the lock
\* released; called from to_dict, the property returns into to_dict
SReadRate(t) ==
    /\ \/ spc[t] = "locked" /\ sop[t] \in Rates
       \/ spc[t] \in {"in_hit", "in_miss"}
    /\ slock' = 0
    /\ spc' = [spc EXCEPT ![t] =
                  CASE spc[t] = "locked" -> "done"
                    [] spc[t] = "in_hit" -> "after_hit"
                    [] spc[t] = "in_miss" -> "after_miss"]
    /\ UNCHANGED <<sop, nstat, stats>>
    /\ StatsFrame

\* to_dict (lines 76-90): holding the lock, the dictionary is built; its
\* entries "hit_rate" and "miss_rate" are the properties (lines 87, 88); at
\* the end of the with block the lock is released
SToDict(t) ==
    /\ sop[t] = "to_dict"
    /\ spc[t] \in {"locked", "after_hit", "after_miss"}
    /\ spc' = [spc EXCEPT ![t] =
                  CASE spc[t] = "locked" -> "nested_hit"
                    [] spc[t] = "after_hit" -> "nested_miss"
                    [] spc[t] = "after_miss" -> "done"]
    /\ slock' = IF spc[t] = "after_miss" THEN 0 ELSE slock
    /\ UNCHANGED <<sop, nstat, stats>>
    /\ StatsFrame

\* the operation returns to its caller
SReturn(t) ==
    /\ spc[t] = "done"
    /\ spc' = [spc EXCEPT ![t] = "idle"]
    /\ sop' = [sop EXCEPT ![t] = "none"]
    /\ UNCHANGED <<slock, nstat, stats>>
    /\ StatsFrame

NextStats ==
    \/ \E t \in StatThreads, op \in StatOps : SBegin(t, op)
    \/ \E t \in StatThreads : SAcquire(t)
    \/ \E t \in StatThreads : SIncrement(t)
    \/ \E t \in StatThreads : SReadRate(t)
    \/ \E t \in StatThreads : SToDict(t)
    \/ \E t \in StatThreads : SReturn(t)

SpecStats == InitStats /\ [][NextStats]_vars

\* every thread runs: a thread that can take a step takes it; a thread
\* waiting for the lock gets it if the lock stays free
StatScheduling ==
    \A t \in StatThreads :
        /\ WF_vars(SAcquire(t))
        /\ WF_vars(SIncrement(t))
        /\ WF_vars(SReadRate(t))
        /\ WF_vars(SToDict(t))
        /\ WF_vars(SReturn(t))

SpecStatsLive == SpecStats /\ StatScheduling

(***************************************************************************)
(* SpecConfig: a CacheConfig is constructed.                               *)
(***************************************************************************)
InitConfig ==
    /\ now = 1
    /\ CircuitBreakerInit
    /\ threshold = 1
    /\ timeout = 0
    /\ CBDriverInit
    /\ DeduplicatorInit
    /\ DDDriverInit
    /\ FacadeUnused
    /\ NoMatcher
    /\ KeyInit
    /\ TierUnused
    /\ PeerUnused
    /\ StatsUnused
    /\ cargs \in ConfigOptions
    /\ cret = <<>>

\* CacheConfig(**options): the dataclass assigns the fields and runs __post_init__
Construct ==
    /\ cret = <<>>
    /\ cret' = <<PostInit(cargs)>>
    /\ UNCHANGED <<now, cbvars, cbdriver, ddvars, dddriver, facvars, facdriver>>
    /\ UNCHANGED <<matchvars, keyvars, tiervars, peervars, statvars, cargs>>

NextConfig == Construct

SpecConfig == InitConfig /\ [][NextConfig]_vars

(***************************************************************************)
(* Claims about the circuit breaker, checked under SpecCB.                 *)
(***************************************************************************)

\* C7: starting from CLOSED with failure count 0, the breaker stays CLOSED and
\* passes every call to the operation while fewer than threshold operations
\* have failed, and the step in which the threshold-th operation fails leaves
\* the state OPEN.
C7_OpensAtThreshold ==
    /\ (nfailed < threshold => state = CLOSED)
    /\ [][ /\ (nfailed' < threshold => state' = CLOSED)
           /\ (nfailed < threshold /\ nfailed' >= threshold => state' = OPEN)
           /\ \A c \in Callers :
                (nfailed < threshold /\ cpc[c] = "idle" /\ cpc'[c] # "idle")
                    => cpc'[c] = "fn" ]_vars

\* C7 witness: with threshold 2, two operations have failed and the breaker,
\* CLOSED after the first failure, is now OPEN.
C7_Witness == threshold = 2 /\ nfailed = 2 /\ state = OPEN

\* C8: a call that begins while the state is OPEN and
\* now - last_failure_time <= timeout raises CircuitBreakerOpenError without
\* invoking the operation and leaves state, failure count and
\* last_failure_time unchanged.
C8_OpenFailsFast ==
    [][ \A c \in Callers :
          (/\ cpc[c] = "idle" /\ cpc'[c] # "idle"
           /\ state = OPEN /\ now - last_failure_time <= timeout)
              => (cpc'[c] = "raised_open" /\ UNCHANGED cbvars) ]_vars

\* C8 witness: a call was rejected with the breaker still OPEN, at the very
\* time of the last failure.
C8_Witness ==
    \E c \in Callers :
        cpc[c] = "raised_open" /\ state = OPEN /\ now - last_failure_time = timeout

\* C9 (as claimed): a call that begins when the state is OPEN and
\* now - last_failure_time > timeout moves the state to HALF_OPEN and invokes
\* the operation; when that operation succeeds the state becomes CLOSED and
\* the failure count 0.
C9_ProbeSuccessCloses ==
    [][ \A c \in Callers :
          /\ (/\ cpc[c] = "idle" /\ cpc'[c] # "idle"
              /\ state = OPEN /\ now - last_failure_time > timeout)
                 => (state' = HALF_OPEN /\ cpc'[c] = "fn")
          /\ (cpc[c] = "fn" /\ cadmit[c] = "probe" /\ cpc'[c] = "returned")
                 => (state' = CLOSED /\ failures' = 0) ]_vars

\* C9 (amended): a call that begins when the state is OPEN and
\* now - last_failure_time > timeout moves the state to HALF_OPEN and invokes
\* the operation; when that operation succeeds and the state is still
\* HALF_OPEN the state becomes CLOSED and the failure count 0, and when the
\* state has been moved meanwhile (by the failure of another call, or by
\* reset) the success changes nothing.
C9_ProbeSuccessClosesIfStillHalfOpen ==
    [][ \A c \in Callers :
          /\ (/\ cpc[c] = "idle" /\ cpc'[c] # "idle"
              /\ state = OPEN /\ now - last_failure_time > timeout)
                 => (state' = HALF_OPEN /\ cpc'[c] = "fn")
          /\ (cpc[c] = "fn" /\ cadmit[c] = "probe" /\ cpc'[c] = "returned")
                 => IF state = HALF_OPEN
                    THEN state' = CLOSED /\ failures' = 0
                    ELSE UNCHANGED cbvars ]_vars

\* C9 witness: the probe's operation has succeeded and the breaker, which had
\* counted at least threshold failures, is CLOSED with count 0 and no reset
\* could have intervened since (the failure time is in the past, beyond timeout).
C9_Witness ==
    \E c \in Callers :
        /\ cpc[c] = "returned" /\ cadmit[c] = "probe"
        /\ state = CLOSED /\ failures = 0 /\ nfailed = 0
        /\ now - last_failure_time > timeout

\* C10 (as claimed): while the breaker is HALF_OPEN at most one call admitted
\* since the breaker left OPEN has its operation running.
C10_SingleProbe ==
    state = HALF_OPEN =>
        Cardinality({c \in Callers :
                        cpc[c] = "fn" /\ cadmit[c] \in {"probe", HALF_OPEN}}) <= 1

(***************************************************************************)
(* Claims about the deduplicator, checked under SpecDedup.  A client is a  *)
(* waiter when the Event it holds was created by another call.             *)
(***************************************************************************)
IsWaiter(t) == dcall[t] # 0 /\ devent[t] # dcall[t]

\* C3 (as claimed): a caller of get_or_fetch(k) that arrives while a fetch for
\* k is in flight never invokes the fetch function itself, and what it returns
\* or raises is the result or the error of that same fetch.
C3_WaitersShareTheFetch ==
    \A t \in Clients :
        IsWaiter(t) =>
            /\ dpc[t] # "fallback"
            /\ dpc[t] \in {"returned", "raised"} => dout[t].id = devent[t]

\* C5 (as claimed): for each key at most one execution of the fetch function
\* started through get_or_fetch is in progress.
C5_OneFetchPerKey ==
    \A k \in Keys :
        Cardinality({t \in Clients :
                        dkey[t] = k /\ dpc[t] \in {"fetching", "fallback"}}) <= 1

\* C6 (as claimed): when the fetch for k that a call ran or joined has raised
\* an error, the call raises that same error: it neither returns a result nor
\* raises the error of another fetch.
C6_ErrorReachesEveryWaiter ==
    \A t \in Clients :
        (/\ dpc[t] \in {"returned", "raised"}
         /\ fout[devent[t]] = "error")
            => (dpc[t] = "raised" /\ dout[t] = Error(devent[t]))

(***************************************************************************)
(* Claims about the cached client, checked under Spec.                     *)
(***************************************************************************)
\* the request of client t reads the cache: cache_read and not force_refresh
ReadsCache(t) == freq[t].cache_read /\ ~freq[t].force_refresh

\* the entry the backend held when the request of client t began is still the
\* one it holds, and its age is at most ttl_seconds
EntryStillFresh(t) ==
    /\ freq[t].entry # NoBlob
    /\ store[freq[t].key] = freq[t].entry
    /\ now - freq[t].entry.cached_at <= cfg.ttl_seconds

\* the request of client t returned the response stored in that entry, without
\* calling the wrapped client
ServedFromEntry(t) ==
    /\ fpc[t] = "returned"
    /\ fresp[t] = Deserialize(freq[t].entry)
    /\ flabel[t] = "hit"
    /\ fnup[t] = 0

\* C1 (as stated): once a response is stored under a key, every later request
\* for the key that reads the cache and ends while the entry's age is at most
\* ttl_seconds returns the stored response and calls no upstream.
C1_FreshEntryIsServed ==
    \A t \in Clients :
        (ReadsCache(t) /\ EntryStillFresh(t) /\ fpc[t] = "returned")
            => ServedFromEntry(t)

\* C1 (amended): once a response is stored under a key, every later request for
\* the key that reads the cache, whose backend read returns the stored entry
\* and which has evaluated it while its age is at most ttl_seconds, returns the
\* stored response and calls no upstream.
C1_FreshEntryReadIsServed ==
    \A t \in Clients :
        (/\ ReadsCache(t)
         /\ EntryStillFresh(t)
         /\ fblob[t] = freq[t].entry
         /\ fpc[t] # "get_ok")
            => ServedFromEntry(t)

\* a second request was served the response the first one stored, at the very
\* age ttl_seconds
C1_Witness ==
    \E t \in Clients :
        /\ ReadsCache(t)
        /\ EntryStillFresh(t)
        /\ now - freq[t].entry.cached_at = cfg.ttl_seconds
        /\ ServedFromEntry(t)
        /\ calls = 1
        /\ nreq = 2

\* the statuses cacheable under the default policy: 2xx but 204
DefaultCacheable == (200..299) \ {204}

\* C2: under the default cacheable_status_codes no blob handed to backend.set,
\* by request() or by a background refresh, and so no blob in the backend, has
\* a status outside 2xx or the status 204; and a request answered with a 4xx or
\* 5xx status missed the cache and, unless it joined another request's fetch in
\* flight, called the upstream once itself (so two such requests in sequence
\* make two upstream calls).
C2_ErrorResponsesNeverStored ==
    cfg.cacheable_status_codes = 200..299 =>
        /\ \A k \in Keys : store[k] # NoBlob => store[k].status \in DefaultCacheable
        /\ \A w \in Workers :
              fpc[w] \in {"set_fn", "set_ok", "set_fail"} => fwrite[w].status \in DefaultCacheable
        /\ \A t \in Clients :
              (fpc[t] = "returned" /\ fresp[t].status >= 400)
                  => /\ flabel[t] = "miss"
                     /\ fnup[t] = 1 \/ fwaited[t]

\* two requests in sequence were both answered with a 4xx/5xx status: the
\* second one has made the second upstream call and nothing is stored
C2_Witness ==
    /\ cfg.cacheable_status_codes = 200..299
    /\ nreq = 2
    /\ ~overlapped
    /\ calls = 2
    /\ \A k \in Keys : store[k] = NoBlob
    /\ \E t \in Clients :
          /\ fpc[t] = "returned"
          /\ ReadsCache(t)
          /\ fresp[t].status >= 400
          /\ fresp[t].id = 2
          /\ fnup[t] = 1

\* C4: with deduplication enabled, when every client has made one request for
\* the same key, with cache read and write, all in progress at the same time
\* and all having missed the cache, the upstream has been called exactly once
\* and all the requests have ended with the same response.
C4_OneFetchForConcurrentMisses ==
    (/\ cfg.enable_request_deduplication
     /\ nreq = NClients
     /\ overlapped
     /\ \A t \in Clients :
           /\ fpc[t] \in {"returned", "raised"}
           /\ freq[t].key = 1
           /\ freq[t].cache_read /\ freq[t].cache_write /\ ~freq[t].force_refresh
           /\ flabel[t] = "miss")
        => /\ calls = 1
           /\ \A t, u \in Clients : fresp[t] = fresp[u]

(***************************************************************************)
(* Further claims about the circuit breaker, checked under SpecCB.         *)
(***************************************************************************)
\* C11: when the operation of a call fails while the breaker is HALF_OPEN, the
\* state becomes OPEN and last_failure_time the time of the failure, and a
\* call entering at once would be rejected.
C11_HalfOpenFailureReopens ==
    [][\A c \in Callers :
          (cpc[c] = "fn" /\ cpc'[c] = "raised" /\ state = HALF_OPEN)
              => /\ state' = OPEN
                 /\ last_failure_time' = now
                 /\ now' - last_failure_time' <= timeout']_vars

\* the probe has failed: the circuit is open again, from the time of the failure
C11_Witness ==
    \E c \in Callers :
        /\ cadmit[c] = "probe"
        /\ cpc[c] = "raised"
        /\ state = OPEN
        /\ last_failure_time = now
        /\ now > 1

(***************************************************************************)
(* Further claims about the cached client, checked under Spec.             *)
(***************************************************************************)
\* C12: request() returns a response or raises the exception the wrapped
\* client raised: whenever a request has ended by raising, what it raised is an
\* exception of a call of the wrapped client, never one of the backend.
C12_OnlyUpstreamErrorsSurface ==
    \A t \in Clients :
        fpc[t] = "raised" => fresp[t].kind = "error" /\ fresp[t].id \in 1..calls

(***************************************************************************)
(* Claims about the cache key, checked under SpecKey.                      *)
(***************************************************************************)
\* the number of times the parameter x occurs in the query s
Occurrences(s, x) == Cardinality({i \in DOMAIN s : s[i] = x})

\* the two requests differ at most in the order of their query parameters
DifferOnlyInQueryOrder ==
    /\ kargs[1].cache_version = kargs[2].cache_version
    /\ kargs[1].method = kargs[2].method
    /\ kargs[1].content = kargs[2].content
    /\ kargs[1].headers = kargs[2].headers
    /\ [kargs[1].url EXCEPT !.query = <<>>] = [kargs[2].url EXCEPT !.query = <<>>]
    /\ \A x \in QueryItems :
          Occurrences(kargs[1].url.query, x) = Occurrences(kargs[2].url.query, x)

\* C20: for two requests that differ at most in the order of the query
\* parameters of their URLs, _build_key returns the same key.
C20_QueryOrderIgnored ==
    (kret # <<>> /\ DifferOnlyInQueryOrder) => kret[1] = kret[2]

\* the keys of two URLs with the same parameters in different orders are equal
C20_Witness ==
    /\ kret # <<>>
    /\ DifferOnlyInQueryOrder
    /\ kargs[1].url.query # kargs[2].url.query
    /\ kret[1] = kret[2]

\* the names of the parameters of the query s, in their order in the URL
RECURSIVE Names(_)
Names(s) == IF s = <<>> THEN <<>> ELSE <<s[1][1]>> \o Names(Tail(s))

\* the two requests differ only in the relative order of the values of a
\* repeated parameter name: the same names at the same places, the same
\* parameters in all, other values at some place
DifferOnlyInRepeatedValueOrder ==
    /\ DifferOnlyInQueryOrder
    /\ Names(kargs[1].url.query) = Names(kargs[2].url.query)
    /\ kargs[1].url.query # kargs[2].url.query

\* C21: two URLs that differ only in the relative order of the values of one
\* repeated parameter name have different keys.
C21_RepeatedValuesKeepOrder ==
    (kret # <<>> /\ DifferOnlyInRepeatedValueOrder) => kret[1] # kret[2]

\* the methods for which the body is hashed into the key (cache.py:132)
BodyMethods == {"POST", "PUT", "PATCH"}

\* C22: the keys of two requests differ if their cache_version differs, or if
\* both are POST/PUT/PATCH to the same URL with different non-empty bodies;
\* the keys of two POST/PUT/PATCH requests with equal version, method, URL and
\* body are equal.
C22_VersionAndBodyVary ==
    kret # <<>> =>
        /\ kargs[1].cache_version # kargs[2].cache_version => kret[1] # kret[2]
        /\ (/\ kargs[1].method \in BodyMethods
            /\ kargs[2].method \in BodyMethods
            /\ kargs[1].url = kargs[2].url
            /\ kargs[1].content # <<>>
            /\ kargs[2].content # <<>>
            /\ kargs[1].content # kargs[2].content)
               => kret[1] # kret[2]
        /\ (/\ kargs[1].method \in BodyMethods
            /\ kargs[1].cache_version = kargs[2].cache_version
            /\ kargs[1].method = kargs[2].method
            /\ kargs[1].url = kargs[2].url
            /\ kargs[1].content = kargs[2].content)
               => kret[1] = kret[2]

\* two POST requests to one URL with one version and different bodies got
\* different keys
C22_Witness ==
    /\ kret # <<>>
    /\ kargs[1].method = "POST"
    /\ kargs[2].method = "POST"
    /\ kargs[1].url = kargs[2].url
    /\ kargs[1].cache_version = kargs[2].cache_version
    /\ kargs[1].content = <<"x">>
    /\ kargs[2].content = <<"y">>
    /\ kret[1] # kret[2]

(***************************************************************************)
(* Claims about the URL policy.                                            *)
(***************************************************************************)
\* C19 (the policy): should_cache(url) is true exactly when no exclude pattern
\* matches the URL and the include list is empty or one of its patterns
\* matches the URL.
C19_ExcludeWinsElseInclude ==
    mret # <<>> =>
        (mret[1] <=>
            /\ \A i \in DOMAIN exclude_patterns : ~GlobMatch(exclude_patterns[i], murl)
            /\ \/ include_patterns = <<>>
               \/ \E i \in DOMAIN include_patterns : GlobMatch(include_patterns[i], murl))

\* a URL matched by an include pattern and by an exclude pattern is not cached
C19_Witness ==
    /\ mret = <<FALSE>>
    /\ \E i \in DOMAIN include_patterns : GlobMatch(include_patterns[i], murl)
    /\ \E i \in DOMAIN exclude_patterns : GlobMatch(exclude_patterns[i], murl)

(***************************************************************************)
(* Claims about the cached client over a backend that holds an entry,      *)
(* checked under SpecWarm.                                                 *)
(***************************************************************************)
\* the request of client t has read a blob that does not deserialize and has
\* gone through the corruption branch (cache.py:336-342)
HandledCorruption(t) == fblob[t] = CorruptBlob /\ fpc[t] # "get_ok"

\* C13 as stated: once a request that read a corrupt blob has ended, it has
\* returned a response and the corrupt blob is no longer stored under its key.
C13_CorruptEntryGone ==
    \A t \in Clients :
        (HandledCorruption(t) /\ fpc[t] \in {"returned", "raised"})
            => /\ store[freq[t].key] # CorruptBlob
               /\ fresp[t] # BackendError

\* C13, amended: when the blob read does not deserialize, the error is counted
\* and backend.delete called; the delete removes the key, or the backend
\* swallows its failure and the blob stays, or it raises and the request ends
\* with that exception.  Unless the delete raised, a miss is counted and what
\* the request returns is a response of the wrapped client; with a backend
\* that does not fail the corrupt blob is not stored any more.
C13_CorruptEntryDeletedIfBackendWorks ==
    [][\A t \in Clients :
          /\ (fpc[t] = "get_ok" /\ fblob[t] = CorruptBlob /\ fpc'[t] # "get_ok")
                => /\ stats'.errors = stats.errors + 1
                   /\ \/ /\ store'[freq[t].key] = NoBlob
                         /\ fpc'[t] = "miss"
                      \/ /\ cfg.backend = "swallowing"
                         /\ store'[freq[t].key] = CorruptBlob
                         /\ fpc'[t] = "miss"
                      \/ /\ cfg.backend = "raising"
                         /\ fpc'[t] = "raised"
                         /\ fresp'[t] = BackendError
          /\ (HandledCorruption(t) /\ fpc[t] = "miss" /\ fpc'[t] # "miss")
                => /\ stats'.misses = stats.misses + 1
                   /\ fpc'[t] \in {"fetch", "dedup"}
          /\ (HandledCorruption(t) /\ fpc[t] # "returned" /\ fpc'[t] = "returned")
                => /\ fresp'[t].kind = "result"
                   /\ fresp'[t].id \in 1..calls'
          /\ (HandledCorruption(t) /\ cfg.backend = "reliable")
                => store'[freq[t].key] # CorruptBlob]_vars

\* a request that read the corrupt blob has returned the upstream's response;
\* one error and one miss are counted and the blob is gone
C13_Witness ==
    \E t \in Clients :
        /\ HandledCorruption(t)
        /\ fpc[t] = "returned"
        /\ fresp[t].kind = "result"
        /\ fresp[t].id = calls
        /\ fnup[t] = 1
        /\ stats.errors = 1
        /\ stats.misses = 1
        /\ store[freq[t].key] # CorruptBlob

\* the refresh threads that are running
Refreshing == {r \in WarmRefreshers : fpc[r] # "idle"}

\* C14 as stated: however many requests hit a stale entry, at most one
\* background refresh has been started for it and has yet to fetch.
C14_OneRefreshPerEntry ==
    Cardinality({r \in WarmRefreshers : fpc[r] = "fetch" /\ fnup[r] = 0}) <= 1

\* C14, amended: a request whose read returns an entry of age between ttl and
\* ttl + swr (swr > 0) returns the response of that entry without calling the
\* upstream, and starts one background refresh; a refresh calls the upstream
\* at most once.  There is one refresh for each such request.
C14_StaleHitRefreshesOnce ==
    [][/\ \A t \in Clients :
             (/\ fpc[t] = "get_ok"
              /\ fblob[t].kind = "blob"
              /\ cfg.stale_while_revalidate_seconds > 0
              /\ now - fblob[t].cached_at > cfg.ttl_seconds
              /\ now - fblob[t].cached_at
                    <= cfg.ttl_seconds + cfg.stale_while_revalidate_seconds
              /\ fpc'[t] # "get_ok")
                => /\ fpc'[t] = "returned"
                   /\ fresp'[t].kind = "result"
                   /\ fresp'[t].id = fblob[t].id
                   /\ fnup'[t] = 0
                   /\ calls' = calls
                   /\ Cardinality({r \in WarmRefreshers :
                                      fpc[r] = "idle" /\ fpc'[r] = "fetch"}) = 1
       /\ \A r \in WarmRefreshers : fnup'[r] <= 1]_vars

\* two requests have hit the stale entry, the second has just been answered
\* from it, and each has started a refresh that has called the upstream
C14_Witness ==
    \E t \in Clients :
        /\ fpc[t] = "returned"
        /\ flabel[t] = "hit_stale"
        /\ fresp[t].id = 0
        /\ fnup[t] = 0
        /\ nreq = 2
        /\ Refreshing = WarmRefreshers
        /\ \A r \in WarmRefreshers : fnup[r] = 1
        /\ calls = 2

\* the refresh thread r has ended after handing a cacheable response to
\* _set_to_cache, and had ended when the request of client t began
RefreshedBefore(r, t) ==
    /\ r \in freq[t].done
    /\ fpc[r] = "returned"
    /\ IsCacheable(fresp[r])

\* C15 as stated: the next request that reads the cache after a background
\* refresh has completed with a cacheable response of the upstream, and ends
\* within ttl_seconds of the refresh, returns the refreshed response without
\* calling the upstream.
C15_RefreshedEntryIsServed ==
    \A t \in Clients, r \in WarmRefreshers :
        (/\ ReadsCache(t)
         /\ fpc[t] \in {"returned", "raised"}
         /\ RefreshedBefore(r, t)
         /\ ~cfg.serve_stale_on_error
         /\ now - fwrite[r].cached_at <= cfg.ttl_seconds)
            => /\ fpc[t] = "returned"
               /\ fresp[t] = fresp[r]
               /\ fnup[t] = 0

\* C15, amended: after a background refresh has stored its response, a request
\* that reads the cache, whose backend read returns the entry the refresh
\* stored and which evaluates it while its age is at most ttl_seconds, returns
\* the refreshed response without calling the upstream.
C15_RefreshedEntryReadIsServed ==
    \A t \in Clients, r \in WarmRefreshers :
        (/\ ReadsCache(t)
         /\ RefreshedBefore(r, t)
         /\ freq[t].entry = fwrite[r]
         /\ EntryStillFresh(t)
         /\ fblob[t] = freq[t].entry
         /\ fpc[t] # "get_ok")
            => /\ ServedFromEntry(t)
               /\ fresp[t] = fresp[r]

\* the request after the stale hit was served the response the refresh had
\* fetched and stored, at the very age ttl_seconds
C15_Witness ==
    \E t \in Clients, r \in WarmRefreshers :
        /\ ReadsCache(t)
        /\ RefreshedBefore(r, t)
        /\ freq[t].entry = fwrite[r]
        /\ now - fwrite[r].cached_at = cfg.ttl_seconds
        /\ ServedFromEntry(t)
        /\ fresp[t] = fresp[r]
        /\ fresp[r].id = 1
        /\ fnup[r] = 1
        /\ calls = 1
        /\ nreq = 2

\* worker w's _fetch_response looks for a stale entry in this step, after the
\* wrapped client raised
StaleLookup(w) == fstale[w] # Absent /\ fstale'[w] = Absent

\* what worker w's _fetch_response has returned or raised after this step
Fetched(w) == IF fpc[w] = "fetch" THEN fresp'[w] ELSE dout'[w]

\* the backend holds an entry for worker w's key of age at most
\* max_stale_age_seconds
HoldsUsableEntry(w) ==
    /\ store[freq[w].key].kind = "blob"
    /\ now - store[freq[w].key].cached_at <= cfg.max_stale_age_seconds

\* C16 as stated: with serve_stale_on_error, when the upstream fetch of a
\* request has raised, the fetch returns the entry the backend holds for the
\* key if its age is at most max_stale_age_seconds, and raises the upstream's
\* exception if the entry is older or absent.
C16_StaleEntryOrUpstreamError ==
    [][\A t \in Clients :
          StaleLookup(t) =>
              Fetched(t) = IF HoldsUsableEntry(t)
                           THEN Deserialize(store[freq[t].key])
                           ELSE fstale[t]]_vars

\* C16, amended: with serve_stale_on_error, when the upstream fetch of a
\* request has raised, the fetch reads the backend directly: if the read
\* returns an entry that deserializes and whose age is at most
\* max_stale_age_seconds the fetch returns it; if the read returns nothing (no
\* entry, or a failure the backend swallowed), an older entry or a blob that
\* does not deserialize, the upstream's exception is raised; if the read
\* raises, its exception is raised in place of the upstream's.
C16_StaleEntryReadOrError ==
    [][\A t \in Clients :
          StaleLookup(t) =>
              \/ /\ HoldsUsableEntry(t)
                 /\ Fetched(t) = Deserialize(store[freq[t].key])
              \/ /\ ~HoldsUsableEntry(t) \/ cfg.backend = "swallowing"
                 /\ Fetched(t) = fstale[t]
              \/ /\ cfg.backend = "raising"
                 /\ Fetched(t) = BackendError]_vars

\* a request that read the cache and missed because the entry had expired, and
\* whose upstream call raised, returned the entry at the very age
\* max_stale_age_seconds
C16_Witness ==
    \E t \in Clients :
        /\ cfg.serve_stale_on_error
        /\ ReadsCache(t)
        /\ fpc[t] = "returned"
        /\ flabel[t] = "miss"
        /\ fnup[t] = 1
        /\ store[freq[t].key].kind = "blob"
        /\ now - store[freq[t].key].cached_at = cfg.max_stale_age_seconds
        /\ fresp[t] = Deserialize(store[freq[t].key])

\* the request of client t has ended, and was made with cache_read = False for
\* a URL the URL policy lets through
EndedWithoutRead(t) ==
    /\ fpc[t] \in {"returned", "raised"}
    /\ freq[t].allowed
    /\ ~freq[t].cache_read

\* C17: a request made with cache_read = False calls the wrapped client and
\* does not return the response stored under its key, whatever the backend
\* holds and whatever the configuration is.
C17_NoReadNeverServedFromBackend ==
    \A t \in Clients :
        EndedWithoutRead(t) =>
            /\ fnup[t] >= 1
            /\ (fpc[t] = "returned" /\ freq[t].entry.kind = "blob")
                   => fresp[t] # Deserialize(freq[t].entry)

\* worker w serves a request made with cache_write = False for a URL the URL
\* policy lets through: the request itself, or a refresh thread it started
WorksWithoutWrite(w) ==
    /\ fpc[w] # "idle"
    /\ freq[w].allowed
    /\ ~freq[w].cache_write

\* C18: a request made with cache_write = False never causes a backend set:
\* neither the request nor a thread it started calls backend.set.
C18_NoWriteNeverSets ==
    \A w \in WarmWorkers : WorksWithoutWrite(w) => fpc[w] # "set_fn"

\* what C19 says should_cache answers for the URL of client t's request
PolicyAllows(t) ==
    /\ ~AnyMatch(exclude_patterns, UrlString(freq[t].url))
    /\ \/ include_patterns = <<>>
       \/ AnyMatch(include_patterns, UrlString(freq[t].url))

\* C19, for the requests of the cached client: the URL policy lets a request's
\* URL through exactly when no exclude pattern matches it and the include list
\* is empty or has a matching pattern; a request for a URL it refuses calls
\* neither backend.get nor backend.set through the breaker, and does not return
\* the response stored under its key.
C19_RefusedUrlBypassesCache ==
    \A t \in Clients :
        fpc[t] # "idle" =>
            /\ freq[t].allowed <=> PolicyAllows(t)
            /\ ~freq[t].allowed =>
                   /\ fpc[t] \notin {"get_fn", "set_fn"}
                   /\ (fpc[t] = "returned" /\ freq[t].entry.kind = "blob")
                          => fresp[t] # Deserialize(freq[t].entry)

(***************************************************************************)
(* Claims about the tiered backend, checked under SpecTiered.              *)
(***************************************************************************)
\* the caller begins the operation op in this step
Begins(op) == tpc = "idle" /\ tpc' # "idle" /\ targs'.op = op

\* L2 holds a value for key k: stored and, in a RedisCacheBackend, not yet
\* dropped by the server
L2Holds(k) ==
    /\ l2[k] # NoEntry
    /\ l2kind = "remote" => now < l2[k].expires_at

C24_SetWritesBothTiers ==
    /\ (tpc = "publish" /\ targs.op = "set") => l2[targs.key].value = targs.value
    /\ (/\ tpc = "done"
        /\ targs.op = "set"
        /\ npeer = 0
        /\ now < l2[targs.key].expires_at)
           => /\ MemoryGet(l1, targs.key) = targs.value
              /\ L2Get(targs.key) = targs.value

\* the listener handles the message at the head of the channel in this step
Listens == channel # <<>> /\ channel' = Tail(channel)

C26_ExpiredEntriesAreReturned ==
    /\ \A k \in TierKeys :
          /\ l1[k] # NoEntry => MemoryGet(l1, k) = l1[k].value
          /\ l2[k] # NoEntry => L2Get(k) = l2[k].value
    /\ (tpc = "done" /\ targs.op = "get" /\ l2[targs.key] # NoEntry)
           => tret = l2[targs.key].value

(***************************************************************************)
(* Claims about CacheConfig, checked under SpecConfig.                     *)
(***************************************************************************)
\* every option given is inside its documented range
InRange(o) ==
    /\ o.ttl_seconds >= 0
    /\ o.max_bytes >= 0
    /\ o.compression \in Compressors
    /\ o.min_ttl >= 0
    /\ o.max_ttl >= 0
    /\ o.min_ttl <= o.max_ttl
    /\ o.circuit_breaker_threshold >= 1
    /\ o.circuit_breaker_timeout >= 0
    /\ o.deduplication_timeout_seconds >= 1
    /\ o.stale_while_revalidate_seconds >= 0
    /\ o.max_stale_age_seconds >= 0

\* C27: the construction of a CacheConfig with an option outside its
\* documented range fails: a configuration that was constructed has every
\* option in range.
C27_InvalidConfigRejected ==
    cret = <<"constructed">> => InRange(cargs)

(***************************************************************************)
(* Claims about the deduplicator's lock, its waiters and its cleanup,      *)
(* checked under SpecDedup and SpecDedupLive.                              *)
(***************************************************************************)
\* C28: no fetch_fn invoked by get_or_fetch, by the fetcher or by a waiter that
\* falls back, runs while the deduplicator's lock is held.
C28_FetchOutsideLock ==
    \A t \in Clients : dpc[t] \in {"fetching", "fallback"} => dlock = 0

\* C29: every call of get_or_fetch whose own fetch_fn terminates returns or
\* raises in the end: the call of client 1, whose fetch_fn terminates.
C29_EveryCallEnds ==
    (dpc[1] \notin {"idle", "returned", "raised"}) ~> (dpc[1] \in {"returned", "raised"})

\* no call of get_or_fetch is in progress
Quiet == \A t \in Clients : dpc[t] \in {"idle", "returned", "raised"}

\* the deduplicator holds nothing for any key
Clean ==
    \A k \in Keys :
        /\ in_flight[k] = NotInFlight
        /\ results[k] = Absent
        /\ errors[k] = Absent

C31_StaleResponseNeverWrittenBack ==
    [][\A k \in WarmKeys :
          (Readable(store[k]) /\ Readable(store'[k]) /\ store'[k].id = store[k].id)
              => store'[k].cached_at = store[k].cached_at]_vars

(***************************************************************************)
(* Claims about the breaker around the backend (SpecWarm)                  *)
(***************************************************************************)
\* the step issues a backend operation for the worker: backend.get or
\* backend.set is invoked (lines 461, 473), the serve-stale read is made
\* (line 426) or the corrupt entry is deleted (line 342)
IssuesBackendCall(w) ==
    \/ fpc[w] # fpc'[w] /\ fpc'[w] \in {"get_fn", "set_fn"}
    \/ fstale[w] # Absent /\ fstale'[w] = Absent
    \/ fpc[w] = "get_ok" /\ fblob[w] = CorruptBlob /\ fpc'[w] # "get_ok"

\* C32: with the circuit breaker enabled, while the breaker is OPEN and its
\* timeout has not elapsed the facade issues no backend operation.
C32_OpenCircuitNoBackendCall ==
    [][(cfg.enable_circuit_breaker /\ state = OPEN
            /\ ~(now - last_failure_time > timeout))
        => \A w \in WarmWorkers : ~IssuesBackendCall(w)]_vars

(***************************************************************************)
(* Claims about two tiered backends over one L2 (SpecPeers)                *)
(***************************************************************************)
\* the writer's operation has completed, the second instance has handled
\* every invalidation message and its get is not in progress
Settled ==
    /\ tpc = "idle"
    /\ pchannel = <<>>
    /\ ppc = "idle"

\* C33: once a set or delete of one instance has completed, the peer has
\* processed its invalidation message and the peer's get has finished, the
\* peer's L1 holds no value for a key that differs from what L2 stores.
C33_PeerL1AgreesWithL2 ==
    Settled => \A k \in TierKeys : pl1[k] # NoEntry => pl1[k].value = l2[k].value

C35_EveryStatsOperationEnds ==
    \A t \in StatThreads :
        (spc[t] # "idle") ~> (spc[t] = "idle" /\ slock # t)

\* the requests that have not yet reached the hit or miss branch of request()
Uncounted == {t \in Clients : fpc[t] \in {"get_fn", "get_ok", "get_fail", "miss"}}

\* C36: total_requests = hits + misses, and every request of the facade
\* increments exactly one of hits and misses exactly once, whether it returns
\* or raises: the requests begun and past the cache read are all counted.
C36_EveryRequestCountedOnce ==
    /\ stats.total_requests = stats.hits + stats.misses
    /\ stats.hits + stats.misses = nreq - Cardinality(Uncounted)

(***************************************************************************)
(* Claims about the states of the circuit breaker (SpecCB)                 *)
(***************************************************************************)
\* the step is a reset(): no caller of call() moves
IsReset == cpc' = cpc /\ state' = CLOSED /\ failures' = 0

\* C37: in every reachable state, under any interleaving of calls and resets,
\* OPEN or HALF_OPEN implies failure count >= threshold, and the state changes
\* only along CLOSED->OPEN, OPEN->HALF_OPEN, HALF_OPEN->CLOSED,
\* HALF_OPEN->OPEN, or to CLOSED by reset.
C37_BreakerStateMachine ==
    /\ [](state \in {OPEN, HALF_OPEN} => failures >= threshold)
    /\ [][state' # state =>
             \/ state = CLOSED /\ state' = OPEN
             \/ state = OPEN /\ state' = HALF_OPEN
             \/ state = HALF_OPEN /\ state' \in {CLOSED, OPEN}
             \/ IsReset]_vars

\* an operation admitted while the breaker was CLOSED has succeeded and the
\* breaker, opened meanwhile by threshold failures, is OPEN
C37_Witness ==
    \E c \in Callers :
        /\ cpc[c] = "returned"
        /\ cadmit[c] = CLOSED
        /\ state = OPEN
        /\ failures >= threshold

\* C38: a successful call while the breaker is CLOSED leaves the failure
\* count unchanged; the count is zeroed only by reset() or by a success
\* observed in HALF_OPEN, so the breaker is never CLOSED with threshold
\* failures counted, whatever successes occurred between them.
C38_SuccessKeepsCount ==
    /\ [](state = CLOSED => failures < threshold)
    /\ [][/\ \A c \in Callers :
                (cpc[c] = "fn" /\ cpc'[c] = "returned" /\ state = CLOSED)
                    => (failures' = failures /\ state' = CLOSED)
          /\ failures' < failures =>
                /\ failures' = 0
                /\ state' = CLOSED
                /\ \/ IsReset
                   \/ /\ state = HALF_OPEN
                      /\ \E c \in Callers : cpc[c] = "fn" /\ cpc'[c] = "returned"]_vars

\* with threshold 2: an operation has succeeded while the breaker is CLOSED
\* and one failure stays counted
C38_Witness ==
    \E c \in Callers :
        /\ cpc[c] = "returned"
        /\ cadmit[c] = CLOSED
        /\ threshold = 2
        /\ state = CLOSED
        /\ failures = 1

(***************************************************************************)
(* Claims about force_refresh (Spec)                                       *)
(***************************************************************************)
\* the request of client t was made with force_refresh=True
Forced(t) == freq[t].force_refresh

\* a forced request makes no cache read, joins no fetch in flight and, once
\* its fetch has ended, has called the wrapped client once itself
ForcedFetchesItself(t) ==
    /\ fpc[t] \notin {"get_fn", "get_ok", "get_fail", "dedup"}
    /\ flabel[t] \notin {"hit", "hit_stale"}
    /\ ~fwaited[t]
    /\ fpc[t] \in {"write", "set_fn", "set_ok", "set_fail", "returned", "raised"}
          => fnup[t] = 1

BuilderKeyOf(w) == <<"GET", ":">> \o UrlString(freq[w].url)

\* C40: with a key_builder configured, every backend access made for a
\* request uses the key the builder returned: the cache read returns what is
\* stored under it, only it is written or deleted, and a response served
\* because the upstream failed is the entry stored under it.
C40_BuilderKeyOnEveryAccess ==
    [][/\ \A w \in WarmWorkers :
            /\ (fpc[w] = "get_fn" /\ fpc'[w] = "get_ok")
                  => fblob'[w] = store[BuilderKeyOf(w)]
            /\ (fstale[w] # Absent /\ fstale'[w] = Absent /\ fpc'[w] = "write")
                  => /\ store[BuilderKeyOf(w)].kind = "blob"
                     /\ fresp'[w] = Deserialize(store[BuilderKeyOf(w)])
       /\ \A k \in BuilderKeys :
            store'[k] # store[k]
                => \E w \in WarmWorkers : fpc[w] # "idle" /\ BuilderKeyOf(w) = k]_vars

====
